---- MODULE Spec2Model ----
(***************************************************************************)
(* git-mediate: prediction of the target-branch commits responsible for    *)
(* the conflicts of a merge (src/git_mediate.py).                          *)
(*                                                                         *)
(* Text is modelled as text: every oracle answer is a string, and the      *)
(* program's str operations (strip, splitlines, split, startswith, in)     *)
(* are operators over strings.                                             *)
(***************************************************************************)
EXTENDS Integers, Sequences, FiniteSets, TLC

(***************************************************************************)
(* Python str operations used by the program.                              *)
(***************************************************************************)

\* str.isspace over the characters the model uses
Whitespace == {" ", "\t", "\n"}

\* the characters accepted by the hex test of get_blame_for_lines
HexDigits == {"0", "1", "2", "3", "4", "5", "6", "7", "8", "9", "a", "b", "c", "d", "e", "f"}

\* s[i] (1-based) as a one-character string
CharAt(s, i) == SubSeq(s, i, i)

RECURSIVE LStrip(_)
LStrip(s) == IF Len(s) > 0 /\ CharAt(s, 1) \in Whitespace THEN LStrip(Tail(s)) ELSE s

RECURSIVE RStrip(_)
RStrip(s) == IF Len(s) > 0 /\ CharAt(s, Len(s)) \in Whitespace THEN RStrip(SubSeq(s, 1, Len(s) - 1)) ELSE s

\* str.strip()
Strip(s) == RStrip(LStrip(s))

\* str.startswith(p)
StartsWith(s, p) == Len(s) >= Len(p) /\ SubSeq(s, 1, Len(p)) = p

\* the least element of a non-empty set of positions
Least(positions) == CHOOSE p \in positions : \A q \in positions : p <= q

\* the least of a set of positions, 0 when there is none
FirstOf(positions) == IF positions = {} THEN 0 ELSE Least(positions)

\* position of the first occurrence of p in s at or after i, 0 when there is none
FindFrom(s, p, i) == FirstOf({k \in i..(Len(s) - Len(p) + 1) : SubSeq(s, k, k + Len(p) - 1) = p})

\* p in s
Contains(s, p) == FindFrom(s, p, 1) > 0

\* str.split(sep) of s[i..] for a non-empty separator, k being the position of the next
\* separator, 0 when there is none
RECURSIVE SplitAt(_, _, _, _)
SplitAt(s, sep, i, k) ==
    IF k = 0 THEN <<SubSeq(s, i, Len(s))>>
    ELSE <<SubSeq(s, i, k - 1)>> \o SplitAt(s, sep, k + Len(sep), FindFrom(s, sep, k + Len(sep)))

\* str.split(sep) for a non-empty separator
SplitOn(s, sep) == SplitAt(s, sep, 1, FindFrom(s, sep, 1))

\* a sequence of strings without its last element when that is empty
DropEmptyLast(parts) == IF parts[Len(parts)] = "" THEN SubSeq(parts, 1, Len(parts) - 1) ELSE parts

\* str.splitlines(): no element for the text after a final line break
SplitLines(s) == DropEmptyLast(SplitOn(s, "\n"))

\* length of the leading run of non-whitespace characters of s
RECURSIVE TokenLen(_)
TokenLen(s) == IF Len(s) = 0 \/ CharAt(s, 1) \in Whitespace THEN 0 ELSE 1 + TokenLen(Tail(s))

\* the tokens of t, which starts with a token of n characters or is empty
RECURSIVE SplitWs(_)
TokensOf(t, n) == IF t = "" THEN <<>> ELSE <<SubSeq(t, 1, n)>> \o SplitWs(SubSeq(t, n + 1, Len(t)))

\* the tokens of t, which does not start with whitespace
TokensFrom(t) == TokensOf(t, TokenLen(t))

\* str.split(): the whitespace-delimited tokens
SplitWs(s) == TokensFrom(LStrip(s))

\* "\n".join(lines) with a final line break, the shape of a command's stdout
RECURSIVE JoinLines(_)
JoinLines(lines) == IF lines = <<>> THEN "" ELSE Head(lines) \o "\n" \o JoinLines(Tail(lines))

\* all(c in '0123456789abcdef' for c in s)
RECURSIVE AllHex(_)
AllHex(s) == IF Len(s) = 0 THEN TRUE ELSE CharAt(s, 1) \in HexDigits /\ AllHex(Tail(s))

\* the elements of a sequence
Range(seq) == {seq[i] : i \in 1..Len(seq)}

(***************************************************************************)
(* The repository the oracle (git) answers from.  Two files, f of five     *)
(* lines and g of three lines, committed by A, the merge base.  The source *)
(* branch "feature" has commit S; the target branch "main" has U, then T,  *)
(* then the merge commit M whose resolution rewrote a line.  A commit      *)
(* replaces lines in place.                                                *)
(***************************************************************************)

VARIABLES
    repo,       \* the history: which lines S, U, T and M rewrote, and the commit times
    env,        \* the invocation: argv, the git version, and the oracle call that fails
    pc,         \* main's position in the pipeline
    source_branch, target_branch,   \* main's locals of the same name
    merge_base, \* find_conflicting_files_and_content's local
    conflicts,  \* the dict filename -> conflicting lines, as the sequence of its items in insertion order
    pending,    \* the keys the per-file loop in progress has still to visit
    all_commit_hashes,  \* main's set
    conflict_commits,   \* the dict returned by get_commit_details_batch, as the sequence of its values
    stdout, stderr,     \* the lines main and its callees printed
    returncode, \* the exit status: main's return value, 1 for an uncaught exception, -1 while it runs
    calls,      \* the oracle commands issued so far, in order
    run,        \* 1 for the first run over this repository, 2 for the second
    first_stdout,       \* what the first run printed, kept for the second
    report,     \* the answer of a git command handed to its parser on its own
    legacy_result,  \* what parse_old_merge_tree_output returned for report
    snapshots,  \* what git has for a function run on its own: the answers of the three git show
                \* commands, or the lines of a file on either branch with the commit of each
    temp        \* the files of the temporary directory, and the exception that left
                \* find_actual_conflict_lines run on its own ("" when it returned)

vars == <<repo, env, pc, source_branch, target_branch, merge_base, conflicts, pending,
          all_commit_hashes, conflict_commits, stdout, stderr, returncode, calls, run, first_stdout, report, legacy_result,
          snapshots, temp>>

Files == <<"f", "g">>

BaseContent(file) == IF file = "f" THEN <<"aaa1", "bbb2", "ccc3", "ddd4", "eee5">> ELSE <<"ggg0", "ggg1", "ggg2">>

Commits == {"A", "S", "U", "T", "M"}

\* the 40-character commit id of a commit
Sha(c) ==
    CASE c = "A" -> "aaaaaaaaaaaaaaaaaaaaaaaaaaaaaaaaaaaaaaaa"
      [] c = "S" -> "5555555555555555555555555555555555555555"
      [] c = "U" -> "dddddddddddddddddddddddddddddddddddddddd"
      [] c = "T" -> "7777777777777777777777777777777777777777"
      [] c = "M" -> "eeeeeeeeeeeeeeeeeeeeeeeeeeeeeeeeeeeeeeee"

CommitOfSha(id) == CHOOSE c \in Commits : Sha(c) = id

\* a subject longer than a line of a terminal shows
LongSubject == "commit U: rewrite one line of the file on the target branch before the commit that conflicts"

\* the subject line of a commit
Subject(c) == IF c = "U" THEN LongSubject ELSE "commit " \o c

\* the lines a commit rewrote
Edits(c) ==
    CASE c = "A" -> {}
      [] c = "S" -> {[file |-> SubSeq(cell, 1, 1), pos |-> IF cell = "f2" THEN 2 ELSE IF cell = "f4" THEN 4 ELSE 1,
                      text |-> "ssss"] : cell \in repo.S}
      [] c = "U" -> (CASE repo.U = "none" -> {}
                       [] repo.U = "f4t" -> {[file |-> "f", pos |-> 4, text |-> "tttt"]}
                       [] repo.U = "f4u" -> {[file |-> "f", pos |-> 4, text |-> "uuuu"]}
                       [] repo.U = "g1u" -> {[file |-> "g", pos |-> 1, text |-> "uuuu"]}
                       [] repo.U = "g3m" -> {[file |-> "g", pos |-> 3, text |-> ">>>>>>> .their"]})
      [] c = "T" -> {[file |-> "f", pos |-> 2, text |-> repo.tText]}
      [] c = "M" -> IF repo.M THEN {[file |-> "f", pos |-> 2, text |-> "mmmm"]} ELSE {}

Exists(c) == c \in {"A", "T"} \/ (c = "S" /\ repo.S # {}) \/ (c = "U" /\ repo.U # "none") \/ (c = "M" /\ repo.M)

\* more than one parent
IsMerge(c) == c = "M"

\* the first-parent history of a branch, oldest first
BranchHistory(branch) ==
    IF branch = "feature" THEN SelectSeq(<<"A", "S">>, Exists)
    ELSE SelectSeq(<<"A", "U", "T", "M">>, Exists)

Branches == {"feature", "main"}

\* the commit a revision names: a branch name or a commit id; "" when it names none
TipOf(rev) ==
    IF rev \in Branches THEN BranchHistory(rev)[Len(BranchHistory(rev))]
    ELSE IF \E c \in Commits : Exists(c) /\ Sha(c) = rev THEN CommitOfSha(rev)
    ELSE ""

\* the history ending at a commit, oldest first
HistoryOf(c) ==
    IF c = "S" THEN BranchHistory("feature")
    ELSE LET h == BranchHistory("main")
             k == CHOOSE i \in 1..Len(h) : h[i] = c
         IN  SubSeq(h, 1, k)

\* the last commit of a history that rewrote line pos of file, A when none did
RECURSIVE LineCommit(_, _, _)
LineCommit(h, file, pos) ==
    IF Len(h) = 1 THEN h[1]
    ELSE IF \E e \in Edits(h[Len(h)]) : e.file = file /\ e.pos = pos THEN h[Len(h)]
    ELSE LineCommit(SubSeq(h, 1, Len(h) - 1), file, pos)

\* the text of line i of a file after the commit by, the last one that rewrote the line
LineText(by, file, i) ==
    IF by = "A" THEN BaseContent(file)[i]
    ELSE (CHOOSE e \in Edits(by) : e.file = file /\ e.pos = i).text

\* the lines of a file in the snapshot of a commit
ContentAt(c, file) ==
    [i \in 1..Len(BaseContent(file)) |-> LineText(LineCommit(HistoryOf(c), file, i), file, i)]

\* the commit time of a commit, in seconds; commits made within one second share it
CommitTime(c) ==
    IF repo.sameSecond THEN 0
    ELSE CASE c = "A" -> 0 [] c = "S" -> 1 [] c = "U" -> 2 [] c = "T" -> 3 [] c = "M" -> 4

(***************************************************************************)
(* The oracle: what each git command the program issues answers, as        *)
(* [rc, out, err].  env.failure names the command that fails in this       *)
(* repository ("not-a-repo": every command that needs a repository).       *)
(***************************************************************************)

NotARepoMessage == "fatal: not a git repository (or any of the parent directories): .git\n"

Failed(message) == [rc |-> 128, out |-> "", err |-> message]

Answer(text) == [rc |-> 0, out |-> text, err |-> ""]

\* the answer of a command of the given kind about the given file ("" when it is about none)
Guarded(kind, file, answer) ==
    IF env.failure = "not-a-repo" THEN Failed(NotARepoMessage)
    ELSE IF env.failure = kind /\ file \in {"", "f"} THEN Failed("fatal: " \o kind \o " failed\n")
    ELSE answer

\* git rev-parse --abbrev-ref HEAD
GitRevParseHead == Guarded("rev-parse", "", Answer("feature\n"))

\* git merge-base source target
GitMergeBase(source, target) ==
    Guarded("merge-base", "",
        IF TipOf(source) = "" \/ TipOf(target) = "" THEN Failed("fatal: Not a valid object name\n")
        ELSE IF TipOf(source) = TipOf(target) THEN Answer(Sha(TipOf(source)) \o "\n")
        ELSE Answer(Sha("A") \o "\n"))

\* git show rev:file; side is the snapshot asked for: "source", "target" or "base"
GitShow(side, rev, file) ==
    Guarded("show-" \o side, file,
        IF TipOf(rev) = "" THEN Failed("fatal: invalid object name\n")
        ELSE Answer(JoinLines(ContentAt(TipOf(rev), file))))

\* the positions where both sides rewrote the base line, differently
ConflictPositions(ours, base, theirs) ==
    {i \in 1..Len(base) : ours[i] # base[i] /\ theirs[i] # base[i] /\ ours[i] # theirs[i]}

\* the last position of the region that reaches hi: conflicting positions with at
\* most three lines between them are reported as one region
RECURSIVE RegionEnd(_, _)
RegionEndNear(positions, hi, near) == IF near = {} THEN hi ELSE RegionEnd(positions, Least(near))

RegionEnd(positions, hi) == RegionEndNear(positions, hi, {q \in positions : q > hi /\ q - hi - 1 <= 3})

\* the conflict regions [lo, hi] at or after position i, in order
RECURSIVE RegionsFrom(_, _)
RegionsFromLo(positions, lo, hi) == <<[lo |-> lo, hi |-> hi]>> \o RegionsFrom(positions, hi + 1)

RegionsIn(positions, rest) ==
    IF rest = {} THEN <<>> ELSE RegionsFromLo(positions, Least(rest), RegionEnd(positions, Least(rest)))

RegionsFrom(positions, i) == RegionsIn(positions, {p \in positions : p >= i})

Regions(ours, base, theirs) == RegionsFrom(ConflictPositions(ours, base, theirs), 1)

\* the cleanly merged line at a position outside every region
MergedLine(ours, base, theirs, i) == IF ours[i] # base[i] THEN ours[i] ELSE theirs[i]

\* the region that starts at position i, as a set of at most one region
RegionAt(regions, i) == {regions[k] : k \in {k \in 1..Len(regions) : regions[k].lo = i}}

\* the lines of a three-way merge from position i on: each region framed by
\* open, the ours lines (prefixed by ctx), mid, the theirs lines (prefixed by add), close;
\* outside the regions plain[i] gives the lines for position i
RECURSIVE MergeLines(_, _, _, _, _, _)
MergeRegion(ours, theirs, regions, r, frame, plain) ==
    <<frame.open>>
    \o [k \in 1..(r.hi - r.lo + 1) |-> frame.ctx \o ours[r.lo + k - 1]]
    \o <<frame.mid>>
    \o [k \in 1..(r.hi - r.lo + 1) |-> frame.add \o theirs[r.lo + k - 1]]
    \o <<frame.close>>
    \o MergeLines(ours, theirs, regions, r.hi + 1, frame, plain)

MergeAt(ours, theirs, regions, i, here, frame, plain) ==
    IF here # {} THEN MergeRegion(ours, theirs, regions, CHOOSE x \in here : TRUE, frame, plain)
    ELSE plain[i] \o MergeLines(ours, theirs, regions, i + 1, frame, plain)

MergeLines(ours, theirs, regions, i, frame, plain) ==
    IF i > Len(ours) THEN <<>>
    ELSE MergeAt(ours, theirs, regions, i, RegionAt(regions, i), frame, plain)

MergeBody(ours, base, theirs, i, frame, plain) ==
    MergeLines(ours, theirs, Regions(ours, base, theirs), i, frame, plain)

\* the answer of git merge-file for the lines of the three files
MergeFileOf(ours, base, theirs) ==
    [rc |-> Len(Regions(ours, base, theirs)),
     out |-> JoinLines(MergeBody(ours, base, theirs, 1,
                                 [open |-> "<<<<<<< ours", mid |-> "=======", close |-> ">>>>>>> theirs",
                                  ctx |-> "", add |-> ""],
                                 [i \in 1..Len(base) |-> <<MergedLine(ours, base, theirs, i)>>])),
     err |-> ""]

\* git merge-file -p ours base theirs over the three texts written to the temporary
\* files: the exit status is the number of conflict regions
GitMergeFile(ours_text, base_text, theirs_text) ==
    IF env.failure = "merge-file" THEN [rc |-> 255, out |-> "", err |-> "error: Cannot merge binary files\n"]
    ELSE MergeFileOf(SplitLines(ours_text), SplitLines(base_text), SplitLines(theirs_text))

\* the three snapshots of a file for a merge of target into source
Sides(source, target, file) ==
    [ours |-> ContentAt(TipOf(source), file),
     base |-> ContentAt(IF TipOf(source) = TipOf(target) THEN TipOf(source) ELSE "A", file),
     theirs |-> ContentAt(TipOf(target), file)]

ConflictIn(sides) == ConflictPositions(sides.ours, sides.base, sides.theirs) # {}

HasConflict(source, target, file) == ConflictIn(Sides(source, target, file))

BothChanged(sides) == sides.ours # sides.base /\ sides.theirs # sides.base /\ sides.ours # sides.theirs

ChangedInBoth(source, target, file) == BothChanged(Sides(source, target, file))

\* the flattening of a sequence of sequences
RECURSIVE Flatten(_)
Flatten(seqs) == IF seqs = <<>> THEN <<>> ELSE Head(seqs) \o Flatten(Tail(seqs))

\* the stage entries of the conflicting paths
StageEntries(conflicting) ==
    Flatten([k \in 1..Len(conflicting) |->
        <<"100644 abc 1\t" \o conflicting[k], "100644 abc 2\t" \o conflicting[k],
          "100644 abc 3\t" \o conflicting[k]>>])

\* the messages about the paths both branches changed
MergeMessages(both, conflicting) ==
    Flatten([k \in 1..Len(both) |->
        <<"Auto-merging " \o both[k]>>
        \o (IF both[k] \in Range(conflicting)
            THEN <<"CONFLICT (content): Merge conflict in " \o both[k]>>
            ELSE <<>>)])

\* the modern report for the conflicting paths and the paths both branches changed
WriteTreeReport(conflicting, both) ==
    IF conflicting = <<>> THEN [rc |-> 0, out |-> "abc\n", err |-> ""]
    ELSE [rc |-> 1,
          out |-> JoinLines(<<"abc">> \o StageEntries(conflicting) \o <<"">> \o MergeMessages(both, conflicting)),
          err |-> ""]

\* git merge-tree --write-tree source target, stderr joined to stdout: silent but for the
\* tree id when the merge is clean; on conflict the stage entries of the conflicting
\* paths, then the messages.  A git older than 2.38 rejects the option.
GitMergeTreeWriteTree(source, target) ==
    IF env.failure = "not-a-repo" THEN [rc |-> 128, out |-> NotARepoMessage, err |-> ""]
    ELSE IF env.failure = "merge-tree" THEN [rc |-> 128, out |-> "fatal: merge-tree failed\n", err |-> ""]
    ELSE IF ~env.gitModern
    THEN [rc |-> 129, out |-> "usage: git merge-tree <base-tree> <branch1> <branch2>\n", err |-> ""]
    ELSE IF TipOf(source) = "" \/ TipOf(target) = ""
    THEN [rc |-> 128, out |-> "fatal: not something we can merge\n", err |-> ""]
    ELSE WriteTreeReport(SelectSeq(Files, LAMBDA file : HasConflict(source, target, file)),
                         SelectSeq(Files, LAMBDA file : ChangedInBoth(source, target, file)))

\* the lines of the legacy diff for a position outside every region, m being the merged line
LegacyPlain(ours_line, m) == IF m = ours_line THEN <<" " \o m>> ELSE <<"-" \o ours_line, "+" \o m>>

\* the section of the legacy report for the three snapshots of one file
LegacySectionOf(s, file) ==
    IF s.theirs = s.base \/ s.ours = s.theirs THEN <<>>
    ELSE (IF s.ours # s.base
          THEN <<"changed in both", "  base   100644 abc " \o file,
                 "  our    100644 abc " \o file, "  their  100644 abc " \o file>>
          ELSE <<"merged", "  result 100644 abc " \o file, "  our    100644 abc " \o file>>)
         \o <<"@@ -1 +1 @@">>
         \o MergeBody(s.ours, s.base, s.theirs, 1,
                      [open |-> "+<<<<<<< .our", mid |-> "+=======", close |-> "+>>>>>>> .their",
                       ctx |-> " ", add |-> "+"],
                      [i \in 1..Len(s.base) |->
                          LegacyPlain(s.ours[i], MergedLine(s.ours, s.base, s.theirs, i))])

\* the section of the legacy report for one file: nothing when target left it alone
LegacySection(source, target, file) == LegacySectionOf(Sides(source, target, file), file)

\* git merge-tree base source target, the legacy report
GitMergeTree(base, source, target) ==
    Guarded("merge-tree", "",
        IF TipOf(source) = "" \/ TipOf(target) = "" THEN Failed("fatal: unable to read tree\n")
        ELSE Answer(JoinLines(Flatten([k \in 1..Len(Files) |-> LegacySection(source, target, Files[k])]))))

\* the diff of the lines old and new of a file
DiffOf(old, new, file) ==
    IF old = new THEN Answer("")
    ELSE Answer(JoinLines(<<"diff --git a/" \o file \o " b/" \o file, "index abc..abc 100644",
                             "--- a/" \o file, "+++ b/" \o file, "@@ -1 +1 @@">>
                           \o Flatten([i \in 1..Len(old) |->
                                IF old[i] = new[i] THEN <<" " \o old[i]>>
                                ELSE <<"-" \o old[i], "+" \o new[i]>>])))

\* git diff base target -- file
GitDiff(base, target, file) ==
    Guarded("diff", file, DiffOf(ContentAt(TipOf(base), file), ContentAt(TipOf(target), file), file))

\* the porcelain blame of lines, by[i] being the commit of line i
BlameReport(lines, by, file) ==
    Answer(JoinLines(Flatten([i \in 1..Len(lines) |->
        <<Sha(by[i]) \o " 1 1">>
        \o (IF \E j \in 1..(i - 1) : by[j] = by[i] THEN <<>>
            ELSE <<"author t", "summary " \o Subject(by[i]), "filename " \o file>>)
        \o <<"\t" \o lines[i]>>])))

\* the commit of each line of a file in the history h
BlamedCommits(h, file) == [i \in 1..Len(BaseContent(file)) |-> LineCommit(h, file, i)]

\* git blame --porcelain branch -- file: per line a record line that starts with the
\* commit id, the commit's description the first time it is named, then the line's
\* content after a tab
GitBlame(side, branch, file) ==
    Guarded("blame-" \o side, file,
        IF TipOf(branch) = "" THEN Failed("fatal: no such ref\n")
        ELSE BlameReport(ContentAt(TipOf(branch), file), BlamedCommits(HistoryOf(TipOf(branch)), file), file))

\* the rev-list report of a set of merge commits
MergesReport(merges) == Answer(JoinLines(SelectSeq(<<Sha("M")>>, LAMBDA id : CommitOfSha(id) \in merges)))

\* git rev-list --merges ids: the merge commits reachable from the named commits
GitRevListMerges(ids) ==
    Guarded("rev-list", "",
        IF \E id \in ids : TipOf(id) = "" THEN Failed("fatal: bad object\n")
        ELSE MergesReport({c \in Commits : Exists(c) /\ IsMerge(c)
                        /\ \E id \in ids : c \in Range(HistoryOf(TipOf(id)))}))

\* the sequence ids with id inserted before the first element committed strictly earlier
RECURSIVE InsertByDate(_, _)
InsertByDate(sorted, id) ==
    IF sorted = <<>> THEN <<id>>
    ELSE IF CommitTime(CommitOfSha(Head(sorted))) < CommitTime(CommitOfSha(id)) THEN <<id>> \o sorted
    ELSE <<Head(sorted)>> \o InsertByDate(Tail(sorted), id)

\* the named commits by commit time, latest first, commits of one time in the order named
RECURSIVE SortByDate(_)
SortByDate(ids) ==
    IF ids = <<>> THEN <<>> ELSE InsertByDate(SortByDate(SubSeq(ids, 1, Len(ids) - 1)), ids[Len(ids)])

\* the log records of the commits shown, in order
LogReport(shown) ==
    Answer(JoinLines(Flatten([k \in 1..Len(shown) |->
        <<"COMMIT_START " \o shown[k], Subject(CommitOfSha(shown[k])), "t <t@t>",
          "2023-11-14 22:13:2" \o ToString(CommitTime(CommitOfSha(shown[k]))) \o " +0000",
          "COMMIT_END">>])))

\* git log --format="COMMIT_START %H%n%s%n%an <%ae>%n%ad%nCOMMIT_END" --date=iso --no-walk ids
GitLogNoWalk(ids) == Guarded("log", "", LogReport(SortByDate(ids)))

(***************************************************************************)
(* The program.  A dict is the sequence of its items [key, value] in       *)
(* insertion order; None is a result that is not ok.                       *)
(***************************************************************************)

DictHas(d, key) == \E k \in 1..Len(d) : d[k].key = key

DictGet(d, key) == d[CHOOSE k \in 1..Len(d) : d[k].key = key].value

\* d[key] = value: a new key is appended, a known key keeps its place
DictSet(d, key, value) ==
    IF DictHas(d, key) THEN [k \in 1..Len(d) |-> IF d[k].key = key THEN [key |-> key, value |-> value] ELSE d[k]]
    ELSE Append(d, [key |-> key, value |-> value])

DictKeys(d) == [k \in 1..Len(d) |-> d[k].key]

UpperCase == "ABCDEFGHIJKLMNOPQRSTUVWXYZ"

LowerCase == "abcdefghijklmnopqrstuvwxyz"

\* the lower case of one character, k being its place among the upper-case letters
LowerChar(c, k) == IF k = 0 THEN c ELSE CharAt(LowerCase, k)

\* str.lower()
RECURSIVE Lower(_)
Lower(s) == IF Len(s) = 0 THEN "" ELSE LowerChar(CharAt(s, 1), FindFrom(UpperCase, CharAt(s, 1), 1)) \o Lower(Tail(s))

\* run_command: None for a failed command, else the stripped stdout; printed is what
\* it wrote to stderr
run_command(answer) ==
    IF answer.rc # 0
    THEN [ok |-> FALSE, out |-> "",
          printed |-> IF Contains(Lower(answer.err), "not a git repository") THEN <<answer.err>> ELSE <<>>]
    ELSE [ok |-> TRUE, out |-> Strip(answer.out), printed |-> <<>>]

\* get_current_branch once git rev-parse has answered
BranchOf(answer) ==
    IF answer.rc # 0
    THEN [ok |-> FALSE, out |-> "",
          printed |-> IF answer.err # "" /\ Contains(Lower(answer.err), "not a git repository")
                      THEN <<answer.err>> ELSE <<>>]
    ELSE [ok |-> TRUE, out |-> Strip(answer.out), printed |-> <<>>]

\* get_current_branch
get_current_branch == BranchOf(GitRevParseHead)

\* "not x" for the result of run_command: None or the empty string
Falsy(result) == ~result.ok \/ result.out = ""

\* the marker scan of find_actual_conflict_lines over the lines of the merge result
RECURSIVE ScanMarkers(_, _, _, _)
ScanMarkers(lines, in_conflict, in_their_section, conflict_lines) ==
    IF lines = <<>> THEN conflict_lines
    ELSE LET line == Head(lines) IN
         IF StartsWith(line, "<<<<<<<") THEN ScanMarkers(Tail(lines), TRUE, FALSE, conflict_lines)
         ELSE IF StartsWith(line, "=======") /\ in_conflict
         THEN ScanMarkers(Tail(lines), in_conflict, TRUE, conflict_lines)
         ELSE IF StartsWith(line, ">>>>>>>") /\ in_conflict
         THEN ScanMarkers(Tail(lines), FALSE, FALSE, conflict_lines)
         ELSE IF in_conflict /\ in_their_section
         THEN ScanMarkers(Tail(lines), in_conflict, in_their_section, Append(conflict_lines, line))
         ELSE ScanMarkers(Tail(lines), in_conflict, in_their_section, conflict_lines)

\* line i of lines, "" past their end
LineOrEmpty(lines, i) == IF i <= Len(lines) THEN lines[i] ELSE ""

\* the comparison of two files added on both sides that stops at the end of the shorter
AddedUpToTheShorter(source_lines, target_lines) ==
    Flatten([i \in 1..(IF Len(source_lines) < Len(target_lines) THEN Len(source_lines) ELSE Len(target_lines)) |->
        IF source_lines[i] # target_lines[i] /\ Strip(target_lines[i]) # ""
        THEN <<target_lines[i]>> ELSE <<>>])

\* the lines at which two files added on both sides differ, taken from target
AddedOnBothSides(source_lines, target_lines) ==
    Flatten([i \in 1..(IF Len(source_lines) > Len(target_lines) THEN Len(source_lines) ELSE Len(target_lines)) |->
        IF LineOrEmpty(source_lines, i) # LineOrEmpty(target_lines, i) /\ Strip(LineOrEmpty(target_lines, i)) # ""
        THEN <<LineOrEmpty(target_lines, i)>> ELSE <<>>])

\* the bound of the diff fallback of find_actual_conflict_lines
DiffFallbackLimit == 20

\* the added lines of a diff, without their "+"
AddedLines(diff_lines) ==
    Flatten([k \in 1..Len(diff_lines) |->
        IF StartsWith(diff_lines[k], "+") /\ ~StartsWith(diff_lines[k], "+++")
        THEN <<SubSeq(diff_lines[k], 2, Len(diff_lines[k]))>> ELSE <<>>])

\* the added lines without the cut
AllAdded(added) == added

\* the first DiffFallbackLimit added lines
FirstAdded(added) == SubSeq(added, 1, IF Len(added) < DiffFallbackLimit THEN Len(added) ELSE DiffFallbackLimit)

\* find_actual_conflict_lines, lines 226-235: the diff fallback once git diff has answered
DiffFallback(target_diff, printed, cmds) ==
    [lines |-> IF Falsy(target_diff) THEN <<>> ELSE FirstAdded(AddedLines(SplitLines(target_diff.out))),
     printed |-> printed \o target_diff.printed,
     cmds |-> cmds]

\* find_actual_conflict_lines, lines 186-237: after git merge-file has answered;
\* diff_answer is what git diff answers when it is asked
AfterMergeFile(merge_result, diff_answer, filename, target, base, printed, cmds) ==
    IF merge_result.rc = 1
    THEN [lines |-> ScanMarkers(SplitLines(merge_result.out), FALSE, FALSE, <<>>),
          printed |-> printed, cmds |-> cmds]
    ELSE IF merge_result.rc = 0
    THEN DiffFallback(run_command(diff_answer), printed,
                      Append(cmds, "git diff " \o base \o " " \o target \o " -- " \o filename))
    ELSE [lines |-> <<>>, printed |-> printed, cmds |-> cmds]

\* find_actual_conflict_lines, lines 144-237: after the three snapshots were read
AfterShows(source_content, target_content, base_content, diff_answer, filename, target, base, shows) ==
    IF Falsy(source_content) \/ Falsy(target_content)
    THEN [lines |-> <<>>,
          printed |-> source_content.printed \o target_content.printed \o base_content.printed,
          cmds |-> shows]
    ELSE IF Falsy(base_content)
    THEN [lines |-> AddedOnBothSides(SplitLines(source_content.out), SplitLines(target_content.out)),
          printed |-> source_content.printed \o target_content.printed \o base_content.printed,
          cmds |-> shows]
    ELSE AfterMergeFile(GitMergeFile(source_content.out, base_content.out, target_content.out),
                        diff_answer, filename, target, base,
                        source_content.printed \o target_content.printed \o base_content.printed,
                        Append(shows, "git merge-file -p ours base theirs"))

\* find_actual_conflict_lines: the conflicting lines, what was printed to stderr and
\* the commands issued
find_actual_conflict_lines(filename, source, target, base) ==
    AfterShows(run_command(GitShow("source", source, filename)),
               run_command(GitShow("target", target, filename)),
               run_command(GitShow("base", base, filename)),
               GitDiff(base, target, filename), filename, target, base,
               <<"git show " \o source \o ":" \o filename, "git show " \o target \o ":" \o filename,
                 "git show " \o base \o ":" \o filename>>)

\* the section headers of the legacy report
IsSectionHeader(line) ==
    \/ StartsWith(line, "changed in both")
    \/ StartsWith(line, "added in both")
    \/ StartsWith(line, "both added")
    \/ StartsWith(line, "both modified")

\* how many lines after a section header are searched for its side-marker line
HeaderLookahead == 9

\* parts[-1]
LastOf(parts) == parts[Len(parts)]

\* the file named by the first side-marker line of at least four tokens among
\* lines[j..last], current_file when there is none
RECURSIVE FileAfterHeader(_, _, _, _)
FileAfterHeader(lines, j, last, current_file) ==
    IF j > last THEN current_file
    ELSE IF Strip(lines[j]) # "" /\ (StartsWith(lines[j], "  our") \/ StartsWith(lines[j], "  their"))
            /\ Len(SplitWs(lines[j])) >= 4
    THEN LastOf(SplitWs(lines[j]))
    ELSE FileAfterHeader(lines, j + 1, last, current_file)

\* the loop of parse_old_merge_tree_output from line i on; st holds its locals.
\* raised: conflicts[current_file] was read for a file that has no entry (KeyError)
RECURSIVE ParseOldFrom(_, _, _)
ParseOldFrom(lines, i, st) ==
    IF i > Len(lines) \/ st.raised THEN st
    ELSE LET line == lines[i] IN
         IF IsSectionHeader(line)
         THEN ParseOldFrom(lines, i + 1,
                [st EXCEPT !.current_file =
                    FileAfterHeader(lines, i + 1,
                                    IF i + HeaderLookahead < Len(lines) THEN i + HeaderLookahead ELSE Len(lines),
                                    st.current_file)])
         ELSE IF Contains(line, "+<<<<<<< .our")
         THEN ParseOldFrom(lines, i + 1,
                [st EXCEPT !.in_conflict = TRUE, !.current_conflict_content = <<>>, !.in_their_section = FALSE,
                           !.conflicts = IF st.current_file # "" /\ ~DictHas(st.conflicts, st.current_file)
                                         THEN DictSet(st.conflicts, st.current_file, <<>>)
                                         ELSE st.conflicts])
         ELSE IF Contains(line, "+=======") /\ st.in_conflict
         THEN ParseOldFrom(lines, i + 1, [st EXCEPT !.in_their_section = TRUE])
         ELSE IF Contains(line, "+>>>>>>> .their") /\ st.in_conflict
         THEN IF st.current_file # "" /\ ~DictHas(st.conflicts, st.current_file)
              THEN [st EXCEPT !.raised = TRUE]
              ELSE ParseOldFrom(lines, i + 1,
                     [st EXCEPT !.in_conflict = FALSE, !.in_their_section = FALSE,
                                !.current_conflict_content = <<>>,
                                !.conflicts = IF st.current_file # ""
                                              THEN DictSet(st.conflicts, st.current_file,
                                                       DictGet(st.conflicts, st.current_file)
                                                       \o st.current_conflict_content)
                                              ELSE st.conflicts])
         ELSE IF st.in_conflict /\ st.in_their_section /\ StartsWith(line, "+")
         THEN ParseOldFrom(lines, i + 1,
                [st EXCEPT !.current_conflict_content = Append(st.current_conflict_content,
                                                               SubSeq(line, 2, Len(line)))])
         ELSE ParseOldFrom(lines, i + 1, st)

\* what parse_old_merge_tree_output returns or raises, from the locals of its loop
ParsedOf(st) == [conflicts |-> st.conflicts, raised |-> st.raised]

\* parse_old_merge_tree_output: [conflicts, raised]
parse_old_merge_tree_output(merge_output) ==
    ParsedOf(ParseOldFrom(SplitLines(merge_output), 1,
                 [current_file |-> "", in_conflict |-> FALSE, current_conflict_content |-> <<>>,
                  in_their_section |-> FALSE, conflicts |-> <<>>, raised |-> FALSE]))

\* find_conflicting_files_and_content, lines 360-369: one line of the modern report,
\* parts being the line split on "Merge conflict in "
PathOfLine(line, parts, found) ==
    IF Contains(line, "CONFLICT (content):") /\ Contains(line, "Merge conflict in") /\ Len(parts) > 1
    THEN DictSet(found, Strip(parts[2]), <<>>)
    ELSE found

\* the paths named by the "CONFLICT (content): Merge conflict in" lines of the modern
\* report, as a dict with empty values
RECURSIVE ConflictPaths(_, _)
ConflictPaths(lines, found) ==
    IF lines = <<>> THEN found
    ELSE ConflictPaths(Tail(lines), PathOfLine(Head(lines), SplitOn(Head(lines), "Merge conflict in "), found))

\* the orders in which a set can be iterated
Orders(S) == {order \in [1..Cardinality(S) -> S] : \A i, j \in 1..Cardinality(S) : order[i] = order[j] => i = j}

\* " ".join(ids)
RECURSIVE JoinIds(_)
JoinIds(ids) == IF ids = <<>> THEN "" ELSE " " \o Head(ids) \o JoinIds(Tail(ids))

\* get_blame_for_lines, line 590: the tokens of a line start with a commit id
IsCommitRecord(parts) == parts # <<>> /\ Len(parts[1]) = 40 /\ AllHex(parts[1])

\* the blame scan of get_blame_for_lines from line k on: the dict line number -> commit
RECURSIVE BlameScan(_, _, _, _, _)
BlameScan(lines, line_numbers, current_commit, current_line_num, line_to_commit) ==
    IF lines = <<>> THEN line_to_commit
    ELSE IF IsCommitRecord(SplitWs(Head(lines)))
    THEN BlameScan(Tail(lines), line_numbers, SplitWs(Head(lines))[1], current_line_num, line_to_commit)
    ELSE IF StartsWith(Head(lines), "\t")
    THEN BlameScan(Tail(lines), line_numbers, current_commit, current_line_num + 1,
                   IF current_line_num + 1 \in line_numbers
                   THEN DictSet(line_to_commit, current_line_num + 1, current_commit)
                   ELSE line_to_commit)
    ELSE BlameScan(Tail(lines), line_numbers, current_commit, current_line_num, line_to_commit)

\* get_blame_for_lines once the command has answered
BlameOf(blame_output, branch, file_path, line_numbers) ==
    [blame |-> IF Falsy(blame_output) THEN <<>>
               ELSE BlameScan(SplitLines(blame_output.out), line_numbers, "", 0, <<>>),
     printed |-> blame_output.printed,
     cmds |-> <<"git blame --porcelain " \o branch \o " -- " \o file_path>>]

\* get_blame_for_lines, git blame answering with blame_answer; "" stands for the commit None
get_blame_for_lines(blame_answer, file_path, branch, line_numbers) ==
    BlameOf(run_command(blame_answer), branch, file_path, line_numbers)

\* dict.get(key): "" stands for None
BlameGet(d, key) == IF DictHas(d, key) THEN DictGet(d, key) ELSE ""

\* get_merge_commits_batch once the command has answered
MergeCommitsOf(merge_output) ==
    [merges |-> IF Falsy(merge_output) THEN {} ELSE Range(SplitLines(merge_output.out)),
     printed |-> merge_output.printed,
     cmds |-> <<"git rev-list --merges">>]

\* get_merge_commits_batch for a non-empty set
get_merge_commits_batch(commit_hashes) == MergeCommitsOf(run_command(GitRevListMerges(commit_hashes)))

\* the loop of filter_merge_commits_only over the answer of the batch
WithoutMerges(commit_set, batch) ==
    [commits |-> {commit \in commit_set : commit # "" /\ commit \notin batch.merges},
     printed |-> batch.printed, cmds |-> batch.cmds]

\* filter_merge_commits_only
filter_merge_commits_only(commit_set) ==
    IF commit_set = {} THEN [commits |-> {}, printed |-> <<>>, cmds |-> <<>>]
    ELSE WithoutMerges(commit_set, get_merge_commits_batch(commit_set))

\* a conflicting line of at most this length after strip() is not searched for
TrivialLength == 2

\* the conflicting lines searched for when no line is too short to be searched for
EveryConflictLine(conflicting_content) ==
    {Strip(conflicting_content[k]) : k \in {k \in 1..Len(conflicting_content) : Strip(conflicting_content[k]) # ""}}

\* find_commits_for_specific_lines, line 530: the conflicting lines searched for
NormalizedConflictLines(conflicting_content) ==
    {Strip(conflicting_content[k]) : k \in {k \in 1..Len(conflicting_content) :
        Strip(conflicting_content[k]) # "" /\ Len(Strip(conflicting_content[k])) > TrivialLength}}

\* find_commits_for_specific_lines, lines 533-536: the target lines that match
MatchingLineNumbers(target_lines, conflict_lines_normalized) ==
    {n \in 1..Len(target_lines) :
        Strip(target_lines[n]) # "" /\ Strip(target_lines[n]) \in conflict_lines_normalized}

\* the target commits of the lines that the source blame attributes to another commit or
\* to none
DivergentOrUnblamed(conflicting_line_numbers, target_blame, source_blame) ==
    {BlameGet(target_blame, n) : n \in {n \in conflicting_line_numbers :
        /\ BlameGet(target_blame, n) # ""
        /\ BlameGet(target_blame, n) # BlameGet(source_blame, n)}}

\* find_commits_for_specific_lines, lines 553-565: the target commits of the lines the
\* two blames attribute to different commits
DivergentCommits(conflicting_line_numbers, target_blame, source_blame) ==
    {BlameGet(target_blame, n) : n \in {n \in conflicting_line_numbers :
        /\ BlameGet(target_blame, n) # ""
        /\ BlameGet(source_blame, n) # ""
        /\ BlameGet(target_blame, n) # BlameGet(source_blame, n)}}

\* find_commits_for_specific_lines, lines 570-573, with what the steps before printed
\* and issued
FilteredCommits(filtered, printed, cmds) ==
    [commits |-> filtered.commits, printed |-> printed \o filtered.printed, cmds |-> cmds \o filtered.cmds]

\* find_commits_for_specific_lines, lines 545-573
CommitsOfBlames(conflicting_line_numbers, target_blame, source_blame, printed, cmds) ==
    FilteredCommits(
        filter_merge_commits_only(
            DivergentCommits(conflicting_line_numbers, target_blame.blame, source_blame.blame)),
        printed \o target_blame.printed \o source_blame.printed,
        cmds \o target_blame.cmds \o source_blame.cmds)

\* find_commits_for_specific_lines, lines 540-573
CommitsOfLines(file_path, target, source, conflicting_line_numbers, target_blame_answer, source_blame_answer, printed, cmds) ==
    IF conflicting_line_numbers = {} THEN [commits |-> {}, printed |-> printed, cmds |-> cmds]
    ELSE CommitsOfBlames(conflicting_line_numbers,
                         get_blame_for_lines(target_blame_answer, file_path, target, conflicting_line_numbers),
                         get_blame_for_lines(source_blame_answer, file_path, source, conflicting_line_numbers),
                         printed, cmds)

\* find_commits_for_specific_lines, lines 518-573; the blame answers are what git blame
\* answers for either branch when it is asked
CommitsOfContents(file_path, conflicting_content, target, source, target_file_content, source_file_content, target_blame_answer, source_blame_answer, cmds) ==
    IF Falsy(target_file_content) \/ Falsy(source_file_content)
    THEN [commits |-> {}, printed |-> target_file_content.printed \o source_file_content.printed,
          cmds |-> cmds]
    ELSE CommitsOfLines(file_path, target, source,
                        MatchingLineNumbers(SplitLines(target_file_content.out),
                                            NormalizedConflictLines(conflicting_content)),
                        target_blame_answer, source_blame_answer,
                        target_file_content.printed \o source_file_content.printed, cmds)

\* find_commits_for_specific_lines
find_commits_for_specific_lines(file_path, conflicting_content, target, source) ==
    CommitsOfContents(file_path, conflicting_content, target, source,
                      run_command(GitShow("target", target, file_path)),
                      run_command(GitShow("source", source, file_path)),
                      GitBlame("target", target, file_path), GitBlame("source", source, file_path),
                      <<"git show " \o target \o ":" \o file_path, "git show " \o source \o ":" \o file_path>>)

\* get_commits_for_conflicting_lines
get_commits_for_conflicting_lines(file_path, conflicting_content, target, source) ==
    IF conflicting_content # <<>>
    THEN find_commits_for_specific_lines(file_path, conflicting_content, target, source)
    ELSE [commits |-> {}, printed |-> <<>>, cmds |-> <<>>]

\* the record loop that looks for the start of a record in every line, the lines of a
\* record included
RECURSIVE DetailScanEveryLine(_, _, _)
DetailScanEveryLine(lines, i, commit_details) ==
    IF i > Len(lines) THEN commit_details
    ELSE IF StartsWith(lines[i], "COMMIT_START ") /\ i + 4 <= Len(lines)
    THEN DetailScanEveryLine(lines, i + 1,
            DictSet(commit_details, SubSeq(lines[i], Len("COMMIT_START ") + 1, Len(lines[i])),
                    [message |-> lines[i + 1], author |-> lines[i + 2], date |-> lines[i + 3],
                     sha |-> SubSeq(lines[i], Len("COMMIT_START ") + 1, Len(lines[i]))]))
    ELSE DetailScanEveryLine(lines, i + 1, commit_details)

\* the record loop of get_commit_details_batch from line i on
RECURSIVE DetailScan(_, _, _)
DetailScan(lines, i, commit_details) ==
    IF i > Len(lines) THEN commit_details
    ELSE IF StartsWith(lines[i], "COMMIT_START ")
    THEN LET commit_hash == SubSeq(lines[i], Len("COMMIT_START ") + 1, Len(lines[i])) IN
         IF i + 4 <= Len(lines)
         THEN DetailScan(lines, i + 5,
                DictSet(commit_details, commit_hash,
                        [message |-> lines[i + 1], author |-> lines[i + 2], date |-> lines[i + 3],
                         sha |-> commit_hash]))
         ELSE commit_details
    ELSE DetailScan(lines, i + 1, commit_details)

\* the record loop with a record made up for every requested commit it found none for
RECURSIVE WithPlaceholders(_, _)
WithPlaceholders(commit_details, commit_list) ==
    IF commit_list = <<>> THEN commit_details
    ELSE WithPlaceholders(IF DictHas(commit_details, Head(commit_list)) THEN commit_details
                          ELSE DictSet(commit_details, Head(commit_list),
                                       [message |-> "", author |-> "", date |-> "", sha |-> Head(commit_list)]),
                          Tail(commit_list))

\* get_commit_details_batch answering with a record for every requested commit
DetailsOfEveryRequested(log_output, commit_list) ==
    [details |-> WithPlaceholders(IF Falsy(log_output) THEN <<>>
                                  ELSE DetailScan(SplitLines(log_output.out), 1, <<>>), commit_list),
     printed |-> log_output.printed,
     cmds |-> <<"git log --no-walk" \o JoinIds(commit_list)>>]

\* get_commit_details_batch once the command has answered
DetailsOf(log_output, commit_list) ==
    [details |-> IF Falsy(log_output) THEN <<>> ELSE DetailScan(SplitLines(log_output.out), 1, <<>>),
     printed |-> log_output.printed,
     cmds |-> <<"git log --no-walk" \o JoinIds(commit_list)>>]

\* get_commit_details_batch for the commits in the order list(commit_hashes) gave, the
\* log command answering with answer
DetailsGiven(answer, commit_list) ==
    IF commit_list = <<>> THEN [details |-> <<>>, printed |-> <<>>, cmds |-> <<>>]
    ELSE DetailsOf(run_command(answer), commit_list)

\* the details of the commits fetched with one git log command per commit
DetailsQueriedPerCommit(commit_list) ==
    [details |-> DetailsGiven(GitLogNoWalk(commit_list), commit_list).details,
     printed |-> DetailsGiven(GitLogNoWalk(commit_list), commit_list).printed,
     cmds |-> [k \in 1..Len(commit_list) |-> "git log --no-walk " \o commit_list[k]]]

\* get_commit_details_batch for the commits in the order list(commit_hashes) gave
get_commit_details_batch(commit_list) == DetailsGiven(GitLogNoWalk(commit_list), commit_list)

(***************************************************************************)
(* main, one action per step of the pipeline.                              *)
(***************************************************************************)

\* the command lines the model runs main with
Argvs == {"main", "feature..main", "main..main"}

FailureKinds == {"none", "not-a-repo", "rev-parse", "merge-base", "merge-tree", "show-source", "show-target",
                 "show-base", "merge-file", "blame-target", "blame-source", "rev-list", "log"}

\* the runs of main over one repository
MaxRuns == 2

Repos ==
    {r \in [S : SUBSET {"f2", "f4", "g1"}, tText : {"tttt", "ddd4", "}", "<<<<<<< .our"},
            U : {"none", "f4t", "f4u", "g1u", "g3m"}, M : BOOLEAN, sameSecond : BOOLEAN] :
        \* T copies line 4 only when U left line 4 alone
        /\ ~(r.tText = "ddd4" /\ r.U \in {"f4t", "f4u"})
        \* the histories whose lines read like conflict markers have them in both files,
        \* and no merge commit
        /\ (r.tText = "<<<<<<< .our") = (r.U = "g3m")
        /\ r.U = "g3m" => ~r.M /\ ~r.sameSecond}

\* every command line with either git when no command fails; each failing command under
\* "main", and the failures that precede the extraction also under "feature..main"
Envs ==
    [argv : Argvs, gitModern : BOOLEAN, failure : {"none"}]
    \cup [argv : {"main"}, gitModern : {TRUE}, failure : FailureKinds \ {"none"}]
    \cup [argv : {"feature..main"}, gitModern : BOOLEAN, failure : {"not-a-repo", "merge-base", "merge-tree"}]

\* the state of main when it is entered
Entry ==
    /\ pc = "start"
    /\ source_branch = ""
    /\ target_branch = ""
    /\ merge_base = ""
    /\ conflicts = <<>>
    /\ pending = <<>>
    /\ all_commit_hashes = {}
    /\ conflict_commits = <<>>
    /\ stdout = <<>>
    /\ stderr = <<>>
    /\ returncode = -1
    /\ calls = <<>>

Init ==
    /\ repo \in Repos
    /\ env \in Envs
    /\ Entry
    /\ run = 1
    /\ first_stdout = <<>>
    /\ report = ""
    /\ legacy_result = [conflicts |-> <<>>, raised |-> FALSE]
    /\ temp = [files |-> {}, raised |-> ""]
    /\ snapshots = <<>>

\* main, lines 805-815: the branches to compare
Start ==
    /\ pc = "start"
    /\ \E pair \in {Contains(env.argv, "..")}, parts \in {SplitOn(env.argv, "..")},
          current \in {get_current_branch} :
       \E source \in {IF pair THEN parts[1] ELSE IF current.ok THEN current.out ELSE ""},
          target \in {IF pair THEN parts[2] ELSE env.argv} :
           /\ calls' = IF pair THEN calls ELSE Append(calls, "git rev-parse --abbrev-ref HEAD")
           /\ IF pair /\ Len(parts) # 2
              THEN /\ pc' = "raised"
                   /\ returncode' = 1
                   /\ stderr' = Append(stderr, "ValueError")
                   /\ UNCHANGED <<source_branch, target_branch, stdout>>
              ELSE /\ source_branch' = source
                   /\ target_branch' = target
                   /\ IF source = ""
                      THEN /\ stderr' = stderr \o (IF pair THEN <<>> ELSE current.printed)
                                        \o <<"Error: Could not determine current branch">>
                           /\ returncode' = 1
                           /\ pc' = "done"
                           /\ UNCHANGED stdout
                      ELSE /\ stderr' = stderr \o (IF pair THEN <<>> ELSE current.printed)
                           /\ stdout' = Append(stdout, "Checking for conflicts between " \o source \o " and "
                                                       \o target \o "...")
                           /\ pc' = "merge_base"
                           /\ UNCHANGED returncode
    /\ UNCHANGED <<repo, env, temp, merge_base, conflicts, pending, all_commit_hashes, conflict_commits, run,
                   first_stdout, report, legacy_result, snapshots>>

\* find_conflicting_files_and_content, lines 337-340: the merge base
FindMergeBase ==
    /\ pc = "merge_base"
    /\ \E base \in {run_command(GitMergeBase(source_branch, target_branch))} :
       /\ calls' = Append(calls, "git merge-base " \o source_branch \o " " \o target_branch)
       /\ merge_base' = base.out
       /\ IF Falsy(base)
          THEN /\ stderr' = stderr \o base.printed
                            \o <<"Error: Cannot find merge base between " \o source_branch \o " and "
                                 \o target_branch>>
               /\ pc' = "check"
          ELSE /\ stderr' = stderr \o base.printed
               /\ pc' = "merge_tree"
    /\ UNCHANGED <<repo, env, temp, source_branch, target_branch, conflicts, pending, all_commit_hashes,
                   conflict_commits, stdout, returncode, run, first_stdout, report, legacy_result, snapshots>>

\* find_conflicting_files_and_content, lines 353-369: the paths of the modern report
ModernConflicts(result) ==
    IF result.rc = 1 /\ result.out # "" THEN ConflictPaths(SplitLines(result.out), <<>>) ELSE <<>>

\* find_conflicting_files_and_content, lines 344-369: the modern report and its paths
ModernMergeTree ==
    /\ pc = "merge_tree"
    /\ \E found \in {ModernConflicts(GitMergeTreeWriteTree(source_branch, target_branch))} :
           /\ calls' = Append(calls, "git merge-tree --write-tree " \o source_branch \o " " \o target_branch)
           /\ conflicts' = found
           /\ pending' = DictKeys(found)
           /\ pc' = IF found # <<>> THEN "extract" ELSE "legacy"
    /\ UNCHANGED <<repo, env, temp, source_branch, target_branch, merge_base, all_commit_hashes, conflict_commits,
                   stdout, stderr, returncode, run, first_stdout, report, legacy_result, snapshots>>

\* find_conflicting_files_and_content, lines 370-374: the conflicting lines of one path
ExtractFile ==
    /\ pc = "extract"
    /\ pending # <<>>
    /\ \E found \in {find_actual_conflict_lines(Head(pending), source_branch, target_branch, merge_base)} :
           /\ conflicts' = DictSet(conflicts, Head(pending), found.lines)
           /\ stderr' = stderr \o found.printed
           /\ calls' = calls \o found.cmds
    /\ pending' = Tail(pending)
    /\ pc' = IF Tail(pending) = <<>> THEN "check" ELSE "extract"
    /\ UNCHANGED <<repo, env, temp, source_branch, target_branch, merge_base, all_commit_hashes, conflict_commits,
                   stdout, returncode, run, first_stdout, report, legacy_result, snapshots>>

\* the legacy step with an empty report taken for a failure of the run
LegacyMergeTreeEmptyIsError ==
    /\ pc = "legacy"
    /\ \E merge_output \in {run_command(GitMergeTree(merge_base, source_branch, target_branch))} :
       \E parsed \in {parse_old_merge_tree_output(merge_output.out)} :
           /\ calls' = Append(calls, "git merge-tree " \o merge_base \o " " \o source_branch \o " "
                                     \o target_branch)
           /\ IF Falsy(merge_output)
              THEN /\ stderr' = Append(stderr \o merge_output.printed, "Error: merge-tree gave no report")
                   /\ returncode' = 1
                   /\ pc' = "done"
                   /\ UNCHANGED conflicts
              ELSE /\ conflicts' = parsed.conflicts
                   /\ pc' = "check"
                   /\ UNCHANGED <<stderr, returncode>>
    /\ UNCHANGED <<repo, env, temp, source_branch, target_branch, merge_base, pending, all_commit_hashes,
                   conflict_commits, stdout, run, first_stdout, report, legacy_result, snapshots>>

\* find_conflicting_files_and_content, lines 379-383: the legacy report
LegacyMergeTree ==
    /\ pc = "legacy"
    /\ \E merge_output \in {run_command(GitMergeTree(merge_base, source_branch, target_branch))} :
       \E parsed \in {parse_old_merge_tree_output(merge_output.out)} :
           /\ calls' = Append(calls, "git merge-tree " \o merge_base \o " " \o source_branch \o " "
                                     \o target_branch)
           /\ IF Falsy(merge_output)
              THEN /\ conflicts' = <<>>
                   /\ stderr' = stderr \o merge_output.printed
                   /\ pc' = "check"
                   /\ UNCHANGED returncode
              ELSE IF parsed.raised
              THEN /\ stderr' = Append(stderr, "KeyError")
                   /\ returncode' = 1
                   /\ pc' = "raised"
                   /\ UNCHANGED conflicts
              ELSE /\ conflicts' = parsed.conflicts
                   /\ pc' = "check"
                   /\ UNCHANGED <<stderr, returncode>>
    /\ UNCHANGED <<repo, env, temp, source_branch, target_branch, merge_base, pending, all_commit_hashes,
                   conflict_commits, stdout, run, first_stdout, report, legacy_result, snapshots>>

\* the check of main with the test for an empty dict dropped: the report is printed
\* whether or not a file conflicts
CheckConflictsAlwaysReports ==
    /\ pc = "check"
    /\ pending' = DictKeys(conflicts)
    /\ pc' = IF conflicts = <<>> THEN "details" ELSE "attribute"
    /\ UNCHANGED <<repo, env, temp, source_branch, target_branch, merge_base, conflicts, all_commit_hashes,
                   conflict_commits, stdout, stderr, returncode, calls, run, first_stdout, report,
                   legacy_result, snapshots>>

\* main, lines 820-825: nothing to report, or the loop over the conflicting files starts
CheckConflicts ==
    /\ pc = "check"
    /\ IF conflicts = <<>>
       THEN /\ stdout' = Append(stdout, "No conflicts found.")
            /\ returncode' = 0
            /\ pc' = "done"
            /\ UNCHANGED pending
       ELSE /\ pending' = DictKeys(conflicts)
            /\ pc' = "attribute"
            /\ UNCHANGED <<stdout, returncode>>
    /\ UNCHANGED <<repo, env, temp, source_branch, target_branch, merge_base, conflicts, all_commit_hashes,
                   conflict_commits, stderr, calls, run, first_stdout, report, legacy_result, snapshots>>

\* main, lines 828-830: the commits of one conflicting file
AttributeFile ==
    /\ pc = "attribute"
    /\ pending # <<>>
    /\ \E found \in {get_commits_for_conflicting_lines(Head(pending), DictGet(conflicts, Head(pending)),
                                                       target_branch, source_branch)} :
           /\ all_commit_hashes' = all_commit_hashes \cup found.commits
           /\ stderr' = stderr \o found.printed
           /\ calls' = calls \o found.cmds
    /\ pending' = Tail(pending)
    /\ pc' = IF Tail(pending) = <<>> THEN "details" ELSE "attribute"
    /\ UNCHANGED <<repo, env, temp, source_branch, target_branch, merge_base, conflicts, conflict_commits, stdout,
                   returncode, run, first_stdout, report, legacy_result, snapshots>>

\* main, line 833: the details of the attributed commits, asked for in the order the
\* set all_commit_hashes iterates in, which differs from process to process
FetchDetails ==
    /\ pc = "details"
    /\ \E commit_list \in Orders(all_commit_hashes) :
       \E fetched \in {get_commit_details_batch(commit_list)} :
          /\ conflict_commits' = [k \in 1..Len(fetched.details) |-> fetched.details[k].value]
          /\ stderr' = stderr \o fetched.printed
          /\ calls' = calls \o fetched.cmds
    /\ pc' = "print"
    /\ UNCHANGED <<repo, env, temp, source_branch, target_branch, merge_base, conflicts, pending, all_commit_hashes,
                   stdout, returncode, run, first_stdout, report, legacy_result, snapshots>>

\* the lines printed for one commit
CommitLines(commit) ==
    <<commit.message, "Author: " \o commit.author, "Date: " \o commit.date, "SHA: " \o commit.sha, "">>

\* main, lines 836-851: the report
PrintResults ==
    /\ pc = "print"
    /\ stdout' = stdout
                 \o <<"", "Conflicts found in the following files:">>
                 \o [k \in 1..Len(conflicts) |-> "  - " \o conflicts[k].key]
                 \o (IF conflict_commits # <<>>
                     THEN <<"", "The following commits likely cause conflicts:", "">>
                          \o Flatten([k \in 1..Len(conflict_commits) |-> CommitLines(conflict_commits[k])])
                     ELSE <<"", "Could not identify the specific commits causing these conflicts.">>)
    /\ returncode' = 0
    /\ pc' = "done"
    /\ UNCHANGED <<repo, env, temp, source_branch, target_branch, merge_base, conflicts, pending, all_commit_hashes,
                   conflict_commits, stderr, calls, run, first_stdout, report, legacy_result, snapshots>>

\* the program is run again over the unchanged repository, with the same command line
RunAgain ==
    /\ pc \in {"done", "raised"}
    /\ run < MaxRuns
    /\ run' = run + 1
    /\ first_stdout' = stdout
    /\ pc' = "start"
    /\ source_branch' = ""
    /\ target_branch' = ""
    /\ merge_base' = ""
    /\ conflicts' = <<>>
    /\ pending' = <<>>
    /\ all_commit_hashes' = {}
    /\ conflict_commits' = <<>>
    /\ stdout' = <<>>
    /\ stderr' = <<>>
    /\ returncode' = -1
    /\ calls' = <<>>
    /\ UNCHANGED <<repo, env, temp, report, legacy_result, snapshots>>

Next ==
    \/ Start
    \/ FindMergeBase
    \/ ModernMergeTree
    \/ ExtractFile
    \/ LegacyMergeTree
    \/ CheckConflicts
    \/ AttributeFile
    \/ FetchDetails
    \/ PrintResults

\* one run of main
Spec == Init /\ [][Next]_vars

NextRerun ==
    \/ Next
    \/ RunAgain

\* up to MaxRuns runs of main over one repository
SpecRerun == Init /\ [][NextRerun]_vars

(***************************************************************************)
(* parse_old_merge_tree_output on its own, over the reports of at most     *)
(* MaxReportLines lines drawn from ReportLines.                            *)
(***************************************************************************)

\* the lines the legacy parser tells apart: a section header, the side-marker lines of
\* two files, the three conflict markers, and a line of added content
ReportLines ==
    {"changed in both", "  our    100644 abc f", "  their  100644 abc g",
     "+<<<<<<< .our", "+=======", "+>>>>>>> .their", "+text"}

MaxReportLines == 4

InitLegacy ==
    /\ repo = [S |-> {}, tText |-> "tttt", U |-> "none", M |-> FALSE, sameSecond |-> FALSE]
    /\ env = [argv |-> "feature..main", gitModern |-> FALSE, failure |-> "none"]
    /\ Entry
    /\ run = 1
    /\ first_stdout = <<>>
    /\ report = ""
    /\ legacy_result = [conflicts |-> <<>>, raised |-> FALSE]
    /\ temp = [files |-> {}, raised |-> ""]
    /\ snapshots = <<>>

\* the report grows by one line
ReportLine ==
    /\ pc = "start"
    /\ Len(SplitLines(report)) < MaxReportLines
    /\ \E line \in ReportLines : report' = report \o line \o "\n"
    /\ UNCHANGED <<repo, env, temp, pc, source_branch, target_branch, merge_base, conflicts, pending,
                   all_commit_hashes, conflict_commits, stdout, stderr, returncode, calls, run,
                   first_stdout, legacy_result, snapshots>>

\* find_conflicting_files_and_content, line 383: the stripped report is parsed
ParseReport ==
    /\ pc = "start"
    /\ legacy_result' = parse_old_merge_tree_output(Strip(report))
    /\ pc' = "parsed"
    /\ UNCHANGED <<repo, env, temp, source_branch, target_branch, merge_base, conflicts, pending,
                   all_commit_hashes, conflict_commits, stdout, stderr, returncode, calls, run,
                   first_stdout, report, snapshots>>

NextLegacy ==
    \/ ReportLine
    \/ ParseReport

SpecLegacy == InitLegacy /\ [][NextLegacy]_vars

(***************************************************************************)
(* get_commit_details_batch and the report of main on their own, over the  *)
(* answers of git log of at most MaxResponseLines lines drawn from         *)
(* ResponseLines and the well-formed answers of LogRecords, for every set  *)
(* of requested commits.                                                   *)
(***************************************************************************)

\* the lines get_commit_details_batch tells apart: the first line of a record of either
\* commit, and any other line
ResponseLines == {"COMMIT_START " \o Sha("T"), "COMMIT_START " \o Sha("U"), "x"}

MaxResponseLines == 6

\* the records of a well-formed answer: at most two commits, each once, the subject of a
\* commit being a line of text or a line that reads like the start of a record
LogRecords ==
    {records \in UNION {[1..k -> [sha : {Sha("T"), Sha("U")}, message : {"commit", "COMMIT_START " \o Sha("U")}]] : k \in 0..2} :
        \A i, j \in 1..Len(records) : records[i].sha = records[j].sha => i = j}

\* the answer of git log for the records: line 760's format
ResponseOf(records) ==
    JoinLines(Flatten([k \in 1..Len(records) |->
        <<"COMMIT_START " \o records[k].sha, records[k].message, "t <t@t>", "2023-11-14 22:13:20 +0000",
          "COMMIT_END">>]))

\* main before line 833, with a conflicting file and any set of attributed commits
InitDetails ==
    /\ repo = [S |-> {"f2"}, tText |-> "tttt", U |-> "f4u", M |-> FALSE, sameSecond |-> FALSE]
    /\ env \in [argv : {"main"}, gitModern : {TRUE}, failure : {"none", "log"}]
    /\ pc = "details"
    /\ source_branch = "feature"
    /\ target_branch = "main"
    /\ merge_base = Sha("A")
    /\ conflicts = <<[key |-> "f", value |-> <<"tttt">>]>>
    /\ pending = <<>>
    /\ all_commit_hashes \in SUBSET {Sha("T"), Sha("U")}
    /\ conflict_commits = <<>>
    /\ stdout = <<"Checking for conflicts between feature and main...">>
    /\ stderr = <<>>
    /\ returncode = -1
    /\ calls = <<>>
    /\ run = 1
    /\ first_stdout = <<>>
    /\ report \in {ResponseOf(records) : records \in LogRecords}
    /\ legacy_result = [conflicts |-> <<>>, raised |-> FALSE]
    /\ temp = [files |-> {}, raised |-> ""]
    /\ snapshots = <<>>

\* the answer of git log grows by one line
ResponseLine ==
    /\ pc = "details"
    /\ Len(SplitLines(report)) < MaxResponseLines
    /\ \E line \in ResponseLines : report' = report \o line \o "\n"
    /\ UNCHANGED <<repo, env, temp, pc, source_branch, target_branch, merge_base, conflicts, pending,
                   all_commit_hashes, conflict_commits, stdout, stderr, returncode, calls, run,
                   first_stdout, legacy_result, snapshots>>

\* main, line 833, git log answering with report, or failing
FetchResponse ==
    /\ pc = "details"
    /\ \E commit_list \in Orders(all_commit_hashes) :
       \E fetched \in {DetailsGiven(Guarded("log", "", Answer(report)), commit_list)} :
          /\ conflict_commits' = [k \in 1..Len(fetched.details) |-> fetched.details[k].value]
          /\ stderr' = stderr \o fetched.printed
          /\ calls' = calls \o fetched.cmds
    /\ pc' = "print"
    /\ UNCHANGED <<repo, env, temp, source_branch, target_branch, merge_base, conflicts, pending, all_commit_hashes,
                   stdout, returncode, run, first_stdout, report, legacy_result, snapshots>>

NextDetails ==
    \/ ResponseLine
    \/ FetchResponse
    \/ PrintResults

SpecDetails == InitDetails /\ [][NextDetails]_vars

(***************************************************************************)
(* find_actual_conflict_lines on its own, over the answers of the three    *)
(* git show commands: a file added on both sides, of at most               *)
(* MaxSnapshotLines lines drawn from SnapshotLines, and a file of          *)
(* LongFileLines lines of which target rewrote the first n.                *)
(***************************************************************************)

\* the lines of a file added on both sides: two lines of text and a blank one
SnapshotLines == {"a", "b", " "}

MaxSnapshotLines == 3

LongFileLines == 22

\* the sequences of at most n elements of S
SeqsUpTo(S, n) == UNION {[1..k -> S] : k \in 0..n}

\* the file is on both branches and not in the merge base
AddedOnBoth ==
    {[source |-> Answer(JoinLines(s)), target |-> Answer(JoinLines(t)),
      base |-> Failed("fatal: path 'f' exists on disk, but not in the merge base\n")] :
        s \in SeqsUpTo(SnapshotLines, MaxSnapshotLines), t \in SeqsUpTo(SnapshotLines, MaxSnapshotLines)}

\* the long file in the merge base
LongFile == [i \in 1..LongFileLines |-> "b" \o ToString(i)]

\* the long file with its first n lines rewritten
RewrittenTo(n) == [i \in 1..LongFileLines |-> IF i <= n THEN "t" \o ToString(i) ELSE LongFile[i]]

\* target rewrote the first n lines of the long file; source left the file alone, or
\* rewrote its last line where target left the last two lines alone
RewrittenByTarget ==
    {[source |-> Answer(JoinLines(IF p.s THEN [LongFile EXCEPT ![LongFileLines] = "s"] ELSE LongFile)),
      target |-> Answer(JoinLines(RewrittenTo(p.n))),
      base |-> Answer(JoinLines(LongFile))] :
        p \in {q \in [s : BOOLEAN, n : 0..LongFileLines] : q.s => q.n <= LongFileLines - 2}}

\* find_conflicting_files_and_content before line 371, the modern report having named f
InitExtract ==
    /\ repo = [S |-> {"f2"}, tText |-> "tttt", U |-> "none", M |-> FALSE, sameSecond |-> FALSE]
    /\ env = [argv |-> "main", gitModern |-> TRUE, failure |-> "none"]
    /\ pc = "extract"
    /\ source_branch = "feature"
    /\ target_branch = "main"
    /\ merge_base = Sha("A")
    /\ conflicts = <<[key |-> "f", value |-> <<>>]>>
    /\ pending = <<"f">>
    /\ all_commit_hashes = {}
    /\ conflict_commits = <<>>
    /\ stdout = <<"Checking for conflicts between feature and main...">>
    /\ stderr = <<>>
    /\ returncode = -1
    /\ calls = <<>>
    /\ run = 1
    /\ first_stdout = <<>>
    /\ report = ""
    /\ legacy_result = [conflicts |-> <<>>, raised |-> FALSE]
    /\ temp = [files |-> {}, raised |-> ""]
    /\ snapshots \in AddedOnBoth \cup RewrittenByTarget

\* find_conflicting_files_and_content, lines 370-374, the git show commands answering
\* with snapshots and git diff with the diff of the base and target snapshots
ExtractGiven ==
    /\ pc = "extract"
    /\ pending # <<>>
    /\ \E found \in {AfterShows(run_command(snapshots.source), run_command(snapshots.target),
                                run_command(snapshots.base),
                                DiffOf(SplitLines(snapshots.base.out), SplitLines(snapshots.target.out),
                                       Head(pending)),
                                Head(pending), target_branch, merge_base,
                                <<"git show " \o source_branch \o ":" \o Head(pending),
                                  "git show " \o target_branch \o ":" \o Head(pending),
                                  "git show " \o merge_base \o ":" \o Head(pending)>>)} :
           /\ conflicts' = DictSet(conflicts, Head(pending), found.lines)
           /\ stderr' = stderr \o found.printed
           /\ calls' = calls \o found.cmds
    /\ pending' = Tail(pending)
    /\ pc' = IF Tail(pending) = <<>> THEN "check" ELSE "extract"
    /\ UNCHANGED <<repo, env, temp, source_branch, target_branch, merge_base, all_commit_hashes, conflict_commits,
                   stdout, returncode, run, first_stdout, report, legacy_result, snapshots>>

NextExtract ==
    \/ ExtractGiven
    \/ CheckConflicts

SpecExtract == InitExtract /\ [][NextExtract]_vars

(***************************************************************************)
(* The parse of the modern report on its own, over the reports of at most  *)
(* MaxModernLines lines drawn from ModernLines.                            *)
(***************************************************************************)

\* lines of the report of git merge-tree --write-tree: the messages about two paths, a
\* content conflict in either, a conflict of g added on both sides, and lines that read
\* like the three conflict markers
ModernLines ==
    {"Auto-merging f", "CONFLICT (content): Merge conflict in f", "CONFLICT (content): Merge conflict in g",
     "CONFLICT (add/add): Merge conflict in g", "<<<<<<< ours", "=======", ">>>>>>> theirs"}

MaxModernLines == 4

InitModern ==
    /\ repo = [S |-> {"f2"}, tText |-> "tttt", U |-> "none", M |-> FALSE, sameSecond |-> FALSE]
    /\ env = [argv |-> "feature..main", gitModern |-> TRUE, failure |-> "none"]
    /\ Entry
    /\ run = 1
    /\ first_stdout = <<>>
    /\ report = ""
    /\ legacy_result = [conflicts |-> <<>>, raised |-> FALSE]
    /\ temp = [files |-> {}, raised |-> ""]
    /\ snapshots = <<>>

\* the report grows by one line
ModernLine ==
    /\ pc = "start"
    /\ Len(SplitLines(report)) < MaxModernLines
    /\ \E line \in ModernLines : report' = report \o line \o "\n"
    /\ UNCHANGED <<repo, env, temp, pc, source_branch, target_branch, merge_base, conflicts, pending,
                   all_commit_hashes, conflict_commits, stdout, stderr, returncode, calls, run,
                   first_stdout, legacy_result, snapshots>>

\* find_conflicting_files_and_content, lines 356-366: git merge-tree --write-tree exits
\* with 1 and the report is parsed
ParseModern ==
    /\ pc = "start"
    /\ conflicts' = ModernConflicts([rc |-> 1, out |-> report, err |-> ""])
    /\ pc' = "parsed"
    /\ UNCHANGED <<repo, env, temp, source_branch, target_branch, merge_base, pending,
                   all_commit_hashes, conflict_commits, stdout, stderr, returncode, calls, run,
                   first_stdout, report, legacy_result, snapshots>>

NextModern ==
    \/ ModernLine
    \/ ParseModern

SpecModern == InitModern /\ [][NextModern]_vars

(***************************************************************************)
(* get_commits_for_conflicting_lines on its own, over the files of at most *)
(* MaxFileLines lines on either branch, each line with the commit that     *)
(* last wrote it.                                                          *)
(***************************************************************************)

\* a line of text that reads like a commit id
HexLine == "0123456789abcdef0123456789abcdef01234567"

\* the lines of the target file: a blank line, a line of text, a line of one character
\* and a line that reads like a commit id
FileTexts == {"", "tttt", "}", HexLine}

MaxFileLines == 3

\* the target files: every line written by the merge base or by T
TargetFiles == UNION {[1..k -> [text : FileTexts, by : {"A", "T"}]] : k \in 1..MaxFileLines}

\* the source files: one line of text or MaxFileLines of them, all written by the merge
\* base or all by S
SourceFiles == UNION {[1..k -> [text : {"ssss"}, by : {c}]] : k \in {1, MaxFileLines}, c \in {"A", "S"}}

\* the conflicting lines handed over: a line of text in other whitespace with a line of
\* one character, and the line that reads like a commit id
ConflictingContents == {<<" tttt ", "}">>, <<HexLine>>}

\* the texts of the lines of a file
TextsOf(file) == [i \in 1..Len(file) |-> file[i].text]

\* the commits of the lines of a file
CommitsOf(file) == [i \in 1..Len(file) |-> file[i].by]

\* main before line 828, the conflicts naming f
InitAttribute ==
    /\ repo = [S |-> {"f2"}, tText |-> "tttt", U |-> "none", M |-> FALSE, sameSecond |-> FALSE]
    /\ env = [argv |-> "main", gitModern |-> TRUE, failure |-> "none"]
    /\ pc = "attribute"
    /\ source_branch = "feature"
    /\ target_branch = "main"
    /\ merge_base = Sha("A")
    /\ \E content \in ConflictingContents : conflicts = <<[key |-> "f", value |-> content]>>
    /\ pending = <<"f">>
    /\ all_commit_hashes = {}
    /\ conflict_commits = <<>>
    /\ stdout = <<"Checking for conflicts between feature and main...">>
    /\ stderr = <<>>
    /\ returncode = -1
    /\ calls = <<>>
    /\ run = 1
    /\ first_stdout = <<>>
    /\ report = ""
    /\ legacy_result = [conflicts |-> <<>>, raised |-> FALSE]
    /\ temp = [files |-> {}, raised |-> ""]
    /\ snapshots \in [target : TargetFiles, source : SourceFiles]

\* get_commits_for_conflicting_lines, git show and git blame answering from snapshots
CommitsGiven(file_path, conflicting_content, target, source) ==
    IF conflicting_content # <<>>
    THEN CommitsOfContents(file_path, conflicting_content, target, source,
                           run_command(Answer(JoinLines(TextsOf(snapshots.target)))),
                           run_command(Answer(JoinLines(TextsOf(snapshots.source)))),
                           BlameReport(TextsOf(snapshots.target), CommitsOf(snapshots.target), file_path),
                           BlameReport(TextsOf(snapshots.source), CommitsOf(snapshots.source), file_path),
                           <<"git show " \o target \o ":" \o file_path, "git show " \o source \o ":" \o file_path>>)
    ELSE [commits |-> {}, printed |-> <<>>, cmds |-> <<>>]

\* main, lines 828-830, over the files of snapshots
AttributeGiven ==
    /\ pc = "attribute"
    /\ pending # <<>>
    /\ \E found \in {CommitsGiven(Head(pending), DictGet(conflicts, Head(pending)), target_branch, source_branch)} :
           /\ all_commit_hashes' = all_commit_hashes \cup found.commits
           /\ stderr' = stderr \o found.printed
           /\ calls' = calls \o found.cmds
    /\ pending' = Tail(pending)
    /\ pc' = IF Tail(pending) = <<>> THEN "details" ELSE "attribute"
    /\ UNCHANGED <<repo, env, temp, source_branch, target_branch, merge_base, conflicts, conflict_commits, stdout,
                   returncode, run, first_stdout, report, legacy_result, snapshots>>

NextAttribute == AttributeGiven

SpecAttribute == InitAttribute /\ [][NextAttribute]_vars

(***************************************************************************)
(* find_actual_conflict_lines on its own, with its temporary files: a file *)
(* d/f of ShortFileLines lines of which each side rewrote some of the      *)
(* first and the last, a three-way merge that answers or fails, and an     *)
(* error of the operating system at one step of the try block.             *)
(***************************************************************************)

ShortFileLines == 3

\* the file in the merge base
ShortFile == [i \in 1..ShortFileLines |-> "b" \o ToString(i)]

\* the file with the lines at positions rewritten by a side
RewrittenAt(positions, by) == [i \in 1..ShortFileLines |-> IF i \in positions THEN by \o ToString(i) ELSE ShortFile[i]]

\* each side rewrote some of the first and the last line; a snapshot may be unreadable
RewrittenByBoth ==
    {[source |-> IF p.read = "no-source" THEN Failed("fatal: invalid object name\n")
                 ELSE Answer(JoinLines(RewrittenAt(p.s, "s"))),
      target |-> Answer(JoinLines(RewrittenAt(p.t, "t"))),
      base |-> IF p.read = "no-base" THEN Failed("fatal: path 'd/f' exists on disk, but not in the merge base\n")
               ELSE Answer(JoinLines(ShortFile))] :
        p \in [s : SUBSET {1, ShortFileLines}, t : SUBSET {1, ShortFileLines}, read : {"all", "no-source", "no-base"}]}

\* str.replace
RECURSIVE Replace(_, _, _)
Replace(s, old, new) ==
    IF s = "" THEN ""
    ELSE IF StartsWith(s, old) THEN new \o Replace(SubSeq(s, Len(old) + 1, Len(s)), old, new)
    ELSE CharAt(s, 1) \o Replace(Tail(s), old, new)

\* the suffixes of the temporary files, in the order of their creation
TempSuffixes == <<"_base_", "_ours_", "_theirs_">>

\* the name of the k-th temporary file, less the random part
TempName(k, filename) == "tmp" \o TempSuffixes[k] \o Replace(filename, "/", "_")

\* where the try block can be left by an error of the operating system: while the k-th
\* temporary file is created, written (before its path is assigned) or closed (after),
\* or while the merge is started
TempFaults ==
    {[at |-> "none", k |-> 0], [at |-> "run", k |-> 0]}
        \cup [at : {"create", "write", "close"}, k : 1..Len(TempSuffixes)]

\* how many temporary files exist when the try block is left
Created(fault) ==
    CASE fault.at = "create" -> fault.k - 1
      [] fault.at \in {"write", "close"} -> fault.k
      [] OTHER -> Len(TempSuffixes)

\* how many of base_path, source_path, target_path are assigned when the try block is left
Assigned(fault) ==
    CASE fault.at \in {"create", "write"} -> fault.k - 1
      [] fault.at = "close" -> fault.k
      [] OTHER -> Len(TempSuffixes)

\* the finally block: the list of the three paths is built, then each file is removed
Cleanup(fault, filename) ==
    IF Assigned(fault) < Len(TempSuffixes)
    THEN [files |-> {TempName(k, filename) : k \in 1..Created(fault)}, raised |-> "UnboundLocalError"]
    ELSE [files |-> {}, raised |-> IF fault.at = "none" THEN "" ELSE "OSError"]

\* the try block is entered when the three snapshots are read and not empty
TryEntered(source_content, target_content, base_content) ==
    ~Falsy(source_content) /\ ~Falsy(target_content) /\ ~Falsy(base_content)

\* find_conflicting_files_and_content before line 371, the modern report having named d/f
InitTemp ==
    /\ repo = [S |-> {"f2"}, tText |-> "tttt", U |-> "none", M |-> FALSE, sameSecond |-> FALSE]
    /\ env \in {e \in Envs : e.argv = "main" /\ e.gitModern /\ e.failure \in {"none", "merge-file"}}
    /\ pc = "extract"
    /\ source_branch = "feature"
    /\ target_branch = "main"
    /\ merge_base = Sha("A")
    /\ conflicts = <<[key |-> "d/f", value |-> <<>>]>>
    /\ pending = <<"d/f">>
    /\ all_commit_hashes = {}
    /\ conflict_commits = <<>>
    /\ stdout = <<"Checking for conflicts between feature and main...">>
    /\ stderr = <<>>
    /\ returncode = -1
    /\ calls = <<>>
    /\ run = 1
    /\ first_stdout = <<>>
    /\ report = ""
    /\ legacy_result = [conflicts |-> <<>>, raised |-> FALSE]
    /\ temp = [files |-> {}, raised |-> ""]
    /\ snapshots \in RewrittenByBoth

\* find_conflicting_files_and_content, lines 370-376: the call of find_actual_conflict_lines
\* for the named file, the git show commands answering with snapshots; an exception that
\* leaves the call is caught at line 375 and the legacy report is asked for
ExtractWithTemp ==
    /\ pc = "extract"
    /\ pending # <<>>
    /\ \E fault \in IF TryEntered(run_command(snapshots.source), run_command(snapshots.target),
                                  run_command(snapshots.base))
                    THEN TempFaults ELSE {[at |-> "none", k |-> 0]} :
       \E found \in {AfterShows(run_command(snapshots.source), run_command(snapshots.target),
                                run_command(snapshots.base),
                                DiffOf(SplitLines(snapshots.base.out), SplitLines(snapshots.target.out),
                                       Head(pending)),
                                Head(pending), target_branch, merge_base,
                                <<"git show " \o source_branch \o ":" \o Head(pending),
                                  "git show " \o target_branch \o ":" \o Head(pending),
                                  "git show " \o merge_base \o ":" \o Head(pending)>>)} :
           /\ temp' = Cleanup(fault, Head(pending))
           /\ IF fault.at = "none"
              THEN /\ conflicts' = DictSet(conflicts, Head(pending), found.lines)
                   /\ stderr' = stderr \o found.printed
                   /\ calls' = calls \o found.cmds
                   /\ pending' = Tail(pending)
                   /\ pc' = IF Tail(pending) = <<>> THEN "check" ELSE "extract"
              ELSE /\ calls' = calls \o SubSeq(found.cmds, 1, 3)
                   /\ pc' = "legacy"
                   /\ UNCHANGED <<conflicts, stderr, pending>>
    /\ UNCHANGED <<repo, env, source_branch, target_branch, merge_base, all_commit_hashes, conflict_commits,
                   stdout, returncode, run, first_stdout, report, legacy_result, snapshots>>

NextTemp == ExtractWithTemp

SpecTemp == InitTemp /\ [][NextTemp]_vars

(***************************************************************************)
(* The claims.                                                             *)
(***************************************************************************)

\* the commit ids main printed in its "SHA: " lines
Reported ==
    {SubSeq(stdout[k], Len("SHA: ") + 1, Len(stdout[k])) :
        k \in {k \in 1..Len(stdout) : StartsWith(stdout[k], "SHA: ")}}

\* the commit is in the history of the tip of the source branch
ReachableFromSource(c) == TipOf(source_branch) # "" /\ c \in Range(HistoryOf(TipOf(source_branch)))

\* C1: no commit reachable from the source branch is among the commits a run reports,
\* whichever commit the blame of the target branch names for a matched line; stated
\* for the runs in which every command answers.
C1_NoSourceCommitReported ==
    env.failure = "none" => \A id \in Reported : ~ReachableFromSource(CommitOfSha(id))

\* C2: no commit with more than one parent is among the commits a run reports,
\* whatever the commands answer, the batched query for merge commits included.
C2_NoMergeCommitReported == \A id \in Reported : ~IsMerge(CommitOfSha(id))

\* source and target rewrote line 2 of f, each its own way, and nothing else of the
\* two branches conflicts; every command answers
SameLineChanged ==
    /\ env.failure = "none"
    /\ source_branch = "feature"
    /\ target_branch = "main"
    /\ repo.S = {"f2"}

\* C3: when source and target changed the same line of one file to different content,
\* the reported commits are exactly the commit that gave the line its content on the
\* target branch.
C3_ExactlyTheIntroducingCommit ==
    (pc = "done" /\ SameLineChanged) => Reported = {Sha(LineCommit(BranchHistory("main"), "f", 2))}

\* the files a branch changed relative to the merge base of the two branches
ChangedFiles(branch, other) ==
    LET base == IF TipOf(branch) = TipOf(other) THEN TipOf(branch) ELSE "A" IN
    {file \in Range(Files) : ContentAt(TipOf(branch), file) # ContentAt(base, file)}

\* the two branches of the run changed no file in common
DisjointFiles ==
    /\ source_branch \in Branches
    /\ target_branch \in Branches
    /\ ChangedFiles(source_branch, target_branch) \cap ChangedFiles(target_branch, source_branch) = {}

\* the last command of the run was the legacy tree-merge query, and it answered
LegacyReportGiven ==
    /\ calls # <<>>
    /\ calls[Len(calls)] = "git merge-tree " \o merge_base \o " " \o source_branch \o " " \o target_branch
    /\ GitMergeTree(merge_base, source_branch, target_branch).rc = 0

\* C4: when the two branches changed disjoint sets of files and the tree merge answered,
\* the run ends with no conflicting file and no commit, prints "No conflicts found."
\* and returns 0.
C4_DisjointFilesNoConflicts ==
    (pc = "done" /\ DisjointFiles /\ LegacyReportGiven) =>
        /\ conflicts = <<>>
        /\ all_commit_hashes = {}
        /\ Reported = {}
        /\ stdout[Len(stdout)] = "No conflicts found."
        /\ returncode = 0

\* a finished run over a source branch that changed only g and a target branch that
\* changed only f
C4_DisjointFilesRun ==
    /\ pc = "done"
    /\ DisjointFiles
    /\ LegacyReportGiven
    /\ env.failure = "none"
    /\ ChangedFiles(source_branch, target_branch) = {"g"}
    /\ ChangedFiles(target_branch, source_branch) = {"f"}
    /\ stdout[Len(stdout)] = "No conflicts found."

\* C5: a second run over the unchanged repository, with the same command line, prints
\* what the first run printed.
C5_SecondRunPrintsTheSame == (run > 1 /\ pc \in {"done", "raised"}) => stdout = first_stdout

\* C6: a run in which a command failed with the "not a git repository" message does
\* not return 0 and does not go on to report on conflicts.
C6_NotARepositoryIsFatal ==
    (pc = "done" /\ NotARepoMessage \in Range(stderr)) =>
        returncode # 0 /\ "No conflicts found." \notin Range(stdout)

\* C7: a run whose merge-base query or tree-merge query failed does not end as a run
\* without conflicts does, with "No conflicts found." and status 0.
C7_FailureIsNotNoConflict ==
    (pc = "done" /\ source_branch # "" /\ env.failure \in {"merge-base", "merge-tree"}) =>
        ~(returncode = 0 /\ "No conflicts found." \in Range(stdout))

\* the run asked for both reports: the modern one holds no conflict line and the
\* legacy one is empty
NoTreeMergeOutput ==
    /\ LegacyReportGiven
    /\ ~Contains(GitMergeTreeWriteTree(source_branch, target_branch).out, "CONFLICT")
    /\ Strip(GitMergeTree(merge_base, source_branch, target_branch).out) = ""

\* C8: when neither report of the tree merge holds anything, the conflict map is empty
\* and main prints "No conflicts found." and returns 0.
C8_NoOutputIsNoConflict ==
    (pc = "done" /\ NoTreeMergeOutput) =>
        /\ conflicts = <<>>
        /\ stdout[Len(stdout)] = "No conflicts found."
        /\ stderr = <<>>
        /\ returncode = 0

\* a finished run whose two tree-merge queries answered without output
C8_NoOutputRun == pc = "done" /\ NoTreeMergeOutput /\ env.failure = "none" /\ returncode = 0

\* C9: the legacy parser returns for every report, whatever the order of its section
\* headers, side-marker lines and conflict markers.
C9_LegacyParserNeverRaises == pc = "parsed" => ~legacy_result.raised

\* C10: when a snapshot of the conflicting path f cannot be read, f gets no conflicting
\* content and no commit, and the run returns 0.
C10_UnreadableSnapshotIsEmpty ==
    (pc = "done" /\ env.failure \in {"show-source", "show-target", "show-base"}
                /\ DictKeys(conflicts) = <<"f">>) =>
        /\ DictGet(conflicts, "f") = <<>>
        /\ all_commit_hashes = {}
        /\ returncode = 0

\* C11: a run that determined its source branch ends with exit status 0, and a run that
\* could not determine it ends with exit status 1
C11_ExitStatusFollowsSourceBranch ==
    pc \in {"done", "raised"} => returncode = (IF source_branch # "" THEN 0 ELSE 1)

\* the commands of the attribution logic issued so far
AttributionCalls ==
    {k \in 1..Len(calls) : \/ StartsWith(calls[k], "git merge-base")
                           \/ StartsWith(calls[k], "git merge-tree")
                           \/ StartsWith(calls[k], "git blame")}

\* C12: when source and target are the same ref, the run is rejected before any
\* merge-base, tree-merge or blame command is issued
C12_IdenticalRefsRejected ==
    /\ (source_branch # "" /\ source_branch = target_branch) => AttributionCalls = {}
    /\ (pc \in {"done", "raised"} /\ source_branch # "" /\ source_branch = target_branch) => returncode # 0

\* C13: the conflict map find_conflicting_files_and_content returns has an entry only
\* for paths with at least one conflicting line
C13_OnlyPathsWithContent ==
    pc \in {"check", "attribute", "details", "print", "done"}
        => \A k \in 1..Len(conflicts) : conflicts[k].value # <<>>

\* str.endswith
EndsWith(s, suffix) == Len(s) >= Len(suffix) /\ SubSeq(s, Len(s) - Len(suffix) + 1, Len(s)) = suffix

\* C14: the subject of a record of get_commit_details_batch is cut to the display length
\* and then ends with the truncation marker; the long subject exceeds every display length
C14_LongSubjectIsCut ==
    \A k \in 1..Len(conflict_commits) :
        Subject(CommitOfSha(conflict_commits[k].sha)) = LongSubject
            => /\ Len(conflict_commits[k].message) < Len(LongSubject)
               /\ EndsWith(conflict_commits[k].message, "...")

\* the lines of the answer of git log as get_commit_details_batch reads them
ResponseRead == SplitLines(Strip(report))

\* the answer holds a record of the commit: its first line and four more lines
HasRecord(id) ==
    \E i \in 1..Len(ResponseRead) : ResponseRead[i] = "COMMIT_START " \o id /\ i + 4 <= Len(ResponseRead)

\* C15: get_commit_details_batch returns records only of commits that have a record in
\* the answer, and none when the command failed or answered nothing; main prints the
\* commits of the records returned and ends with status 0
C15_OnlyRecordsOfTheResponse ==
    pc \in {"print", "done"} =>
        /\ \A k \in 1..Len(conflict_commits) : HasRecord(conflict_commits[k].sha)
        /\ (env.failure = "log" \/ ResponseRead = <<>>) => conflict_commits = <<>>
        /\ pc = "done" => /\ Reported = {conflict_commits[k].sha : k \in 1..Len(conflict_commits)}
                          /\ returncode = 0

\* two commits were requested, the answer has a record of one of them only, and main
\* printed that one
C15_RecordlessIdAbsent ==
    /\ pc = "done"
    /\ all_commit_hashes = {Sha("T"), Sha("U")}
    /\ HasRecord(Sha("T"))
    /\ ~HasRecord(Sha("U"))
    /\ Reported = {Sha("T")}

\* the direct three-way reconstruction ran: a snapshot was asked for
DirectAttempted == \E k \in 1..Len(calls) : StartsWith(calls[k], "git show ")

\* the legacy report was asked for
LegacyAttempted == \E k \in 1..Len(calls) : StartsWith(calls[k], "git merge-tree " \o merge_base \o " ")

\* C16: when the direct three-way reconstruction yields no content for a candidate
\* path, the legacy report is mined for that path before the extractor returns
C16_LegacyMinedAfterEmptyDirect ==
    (/\ pc \in {"check", "attribute", "details", "print", "done"}
     /\ DirectAttempted
     /\ \E k \in 1..Len(conflicts) : conflicts[k].value = <<>>)
        => LegacyAttempted

\* the target lines of the conflict regions of the three snapshots, region by region
TargetSideOf(sides) ==
    Flatten([k \in 1..Len(Regions(sides.ours, sides.base, sides.theirs)) |->
        SubSeq(sides.theirs, Regions(sides.ours, sides.base, sides.theirs)[k].lo,
               Regions(sides.ours, sides.base, sides.theirs)[k].hi)])

\* the target side of the conflict regions of a file of the run
TargetSide(file) == TargetSideOf(Sides(source_branch, target_branch, file))

\* C17: with the three snapshots read and conflict regions in the synthesized merge,
\* find_actual_conflict_lines returns exactly the target side of each region, in order
C17_ExactlyTheTargetSide ==
    (/\ pc \in {"check", "attribute", "details", "print", "done"}
     /\ env.failure = "none"
     /\ DirectAttempted)
        => \A k \in 1..Len(conflicts) : conflicts[k].value = TargetSide(conflicts[k].key)

\* the k-th smallest of a set of positions
NthOf(positions, k) == CHOOSE p \in positions : Cardinality({q \in positions : q <= p}) = k

\* the lines of the three contents as find_actual_conflict_lines reads them
SourceLinesRead == SplitLines(run_command(snapshots.source).out)

TargetLinesRead == SplitLines(run_command(snapshots.target).out)

BaseLinesRead == SplitLines(run_command(snapshots.base).out)

\* find_actual_conflict_lines has returned for a file that both branches have and the
\* merge base has not
AddedTwiceExtracted ==
    /\ pc = "check"
    /\ snapshots # <<>>
    /\ ~Falsy(run_command(snapshots.source))
    /\ ~Falsy(run_command(snapshots.target))
    /\ Falsy(run_command(snapshots.base))

\* the target line at position i, "" past the end of target
TargetLineAt(i) == IF i <= Len(TargetLinesRead) THEN TargetLinesRead[i] ELSE ""

\* the source line at position i, "" past the end of source
SourceLineAt(i) == IF i <= Len(SourceLinesRead) THEN SourceLinesRead[i] ELSE ""

\* the positions, up to the length of the longer file, at which the target line differs
\* from the source line and is not blank
DifferingPositions ==
    {i \in 1..(Len(SourceLinesRead) + Len(TargetLinesRead)) :
        /\ i <= Len(SourceLinesRead) \/ i <= Len(TargetLinesRead)
        /\ TargetLineAt(i) # SourceLineAt(i)
        /\ Strip(TargetLineAt(i)) # ""}

MergedCleanlyExtracted ==
    /\ pc = "check"
    /\ snapshots # <<>>
    /\ ~Falsy(run_command(snapshots.source))
    /\ ~Falsy(run_command(snapshots.target))
    /\ ~Falsy(run_command(snapshots.base))
    /\ GitMergeFile(run_command(snapshots.source).out, run_command(snapshots.base).out,
                    run_command(snapshots.target).out).rc = 0

\* the positions of the lines that target rewrote: the lines git diff base target adds
RewrittenPositions == {i \in 1..Len(TargetLinesRead) : TargetLinesRead[i] # BaseLinesRead[i]}

LegacyMined ==
    /\ pc \in {"check", "attribute", "details", "print", "done"}
    /\ env.failure = "none"
    /\ LegacyAttempted
    /\ ~DirectAttempted

\* C20: in legacy report mining a line is captured iff it is read in the target-side state
\* (after '+=======' and before '+>>>>>>> .their' of a region opened by '+<<<<<<< .our'),
\* without its '+', under the file of the section: the lines mined for a file are the
\* target-side lines of its regions, and no source-side line or line outside a region
C20_LegacyCapturesTheTargetSide ==
    LegacyMined => \A k \in 1..Len(conflicts) : conflicts[k].value = TargetSide(conflicts[k].key)

\* the line of the report names path as conflicting
NamesConflict(line, path) ==
    \E kind \in {"content", "add/add"} : line = "CONFLICT (" \o kind \o "): Merge conflict in " \o path

\* the first line of the report that names path as conflicting, 0 when none does
FirstNamed(path) ==
    FirstOf({i \in 1..Len(SplitLines(report)) : NamesConflict(SplitLines(report)[i], path)})

\* the paths the report names as conflicting
NamedPaths == {path \in Range(Files) : FirstNamed(path) # 0}

\* C21: for a modern report the candidate paths are exactly the conflicting paths that the
\* report names, one entry per path in the order of their first lines; lines that read
\* like conflict markers add, remove and rename no path
C21_ExactlyTheNamedPaths ==
    (pc = "parsed" /\ conflicts # <<>>) =>
        DictKeys(conflicts) =
            [k \in 1..Cardinality(NamedPaths) |->
                CHOOSE path \in NamedPaths :
                    Cardinality({q \in NamedPaths : FirstNamed(q) <= FirstNamed(path)}) = k]

\* the lines of the target file and of the source file as find_commits_for_specific_lines
\* reads them
TargetFileRead == SplitLines(run_command(Answer(JoinLines(TextsOf(snapshots.target)))).out)

SourceFileRead == SplitLines(run_command(Answer(JoinLines(TextsOf(snapshots.source)))).out)

\* get_commits_for_conflicting_lines has returned, having read both files
Attributed == pc = "details" /\ TargetFileRead # <<>> /\ SourceFileRead # <<>>

\* the conflicting lines handed over
ContentGiven == DictGet(conflicts, "f")

\* the trimmed conflicting lines of more than TrivialLength characters
SearchedFor ==
    {Strip(ContentGiven[k]) : k \in {k \in 1..Len(ContentGiven) : Len(Strip(ContentGiven[k])) > TrivialLength}}

\* the numbers of the target lines whose trimmed text is one of them
MatchedLines == {n \in 1..Len(TargetFileRead) : Strip(TargetFileRead[n]) \in SearchedFor}

BlameQueried == \E k \in 1..Len(calls) : StartsWith(calls[k], "git blame")

\* C22: a line number n of the target file is matched iff the trimmed text of target line
\* n equals the trimmed text of a conflicting line of more than two characters after
\* trimming; when no line is matched no commit is returned and blame is not queried
C22_MatchedByTrimmedEquality ==
    Attributed =>
        /\ MatchingLineNumbers(TargetFileRead, NormalizedConflictLines(ContentGiven)) = MatchedLines
        /\ BlameQueried = (MatchedLines # {})
        /\ MatchedLines = {} => all_commit_hashes = {}

\* a target line matches a conflicting line written with other whitespace, and a target
\* line equal to a conflicting line of one character does not
C22_TrimmedMatchAndTrivialLine ==
    /\ Attributed
    /\ BlameQueried
    /\ \E n \in MatchedLines : TargetFileRead[n] \notin Range(ContentGiven)
    /\ \E n \in 1..Len(TargetFileRead) : TargetFileRead[n] \in Range(ContentGiven) /\ n \notin MatchedLines

\* what get_blame_for_lines returns for the target branch and the matched lines
TargetBlameRead ==
    get_blame_for_lines(BlameReport(TextsOf(snapshots.target), CommitsOf(snapshots.target), "f"),
                        "f", target_branch, MatchedLines).blame

\* C23: every content line of the blame output advances the line counter by one, whatever
\* its text: the result maps each requested line number to the commit of the record line
\* before the content line of that number, and has no other key
C23_BlameCountsEveryContentLine ==
    (Attributed /\ MatchedLines # {}) =>
        /\ \A n \in MatchedLines : BlameGet(TargetBlameRead, n) = Sha(snapshots.target[n].by)
        /\ Range(DictKeys(TargetBlameRead)) \subseteq MatchedLines

\* what get_blame_for_lines returns for the source branch and the matched lines
SourceBlameRead ==
    get_blame_for_lines(BlameReport(TextsOf(snapshots.source), CommitsOf(snapshots.source), "f"),
                        "f", source_branch, MatchedLines).blame

\* the matched lines that both blames have an entry for, with different commits
DivergentLines ==
    {n \in MatchedLines :
        /\ BlameGet(TargetBlameRead, n) # ""
        /\ BlameGet(SourceBlameRead, n) # ""
        /\ BlameGet(TargetBlameRead, n) # BlameGet(SourceBlameRead, n)}

\* the matched lines that the source file has, written there by another commit than on target
RewrittenLines == {n \in MatchedLines : n <= Len(snapshots.source) /\ snapshots.source[n].by # snapshots.target[n].by}

\* C24: the candidate commits of a file are exactly the target blame commits of the
\* matched lines whose source blame commit exists and differs; a matched line with equal
\* commits or without one of the two entries adds no commit, and no source blame commit
\* is added.  Where no target line reads like a commit id, these are the commits that
\* wrote the target lines
C24_TargetCommitsOfDivergentLines ==
    Attributed =>
        /\ all_commit_hashes = {BlameGet(TargetBlameRead, n) : n \in DivergentLines}
        /\ HexLine \notin Range(TextsOf(snapshots.target)) =>
               all_commit_hashes = {Sha(snapshots.target[n].by) : n \in RewrittenLines}

\* the commit of a matched line that differs on source is a candidate, and the commit of
\* a matched line past the end of the source file is not
C24_DivergentAndUnblamedLine ==
    /\ Attributed
    /\ \E n \in RewrittenLines : Sha(snapshots.target[n].by) \in all_commit_hashes
    /\ \E n \in MatchedLines : n > Len(snapshots.source) /\ Sha(snapshots.target[n].by) \notin all_commit_hashes

\* the numbers of the lines of the target file whose trimmed text is a conflicting line
ConflictingLinesOfTarget ==
    {n \in 1..Len(snapshots.target) :
        \E k \in 1..Len(ContentGiven) :
            Strip(ContentGiven[k]) # "" /\ Strip(snapshots.target[n].text) = Strip(ContentGiven[k])}

\* C29: every commit attributed is the blame commit of a line whose text is conflicting
\* content: the line numbers counted in the target content that run_command returns
\* denote the lines of the same numbers in the blame output, also for a file that begins
\* with blank lines (stated for the files without a line that reads like a commit id)
C29_AttributedLinesAreConflicting ==
    (Attributed /\ HexLine \notin Range(TextsOf(snapshots.target))) =>
        all_commit_hashes \subseteq {Sha(snapshots.target[n].by) : n \in ConflictingLinesOfTarget}

\* the positions in calls of the merge-commit queries of the filter
FilterCalls == {k \in 1..Len(calls) : StartsWith(calls[k], "git rev-list --merges")}

\* the positions in calls of the commands of the attribution of a file
AttributionSteps == {k \in 1..Len(calls) : StartsWith(calls[k], "git blame")}

\* C25: in one run the commit filter, with its merge-commit query, is applied once, to the
\* candidates of all files, after the last file has been processed: it is not applied
\* once per file
C25_FilterAppliedOnce ==
    /\ Cardinality(FilterCalls) <= 1
    /\ \A k \in FilterCalls : \A j \in AttributionSteps : j < k

\* the positions in calls of the queries for commit details
DetailCalls == {k \in 1..Len(calls) : StartsWith(calls[k], "git log --no-walk")}

\* the commit ids a query for commit details names, in order
IdsAsked(call) == SubSeq(SplitWs(call), Len(SplitWs("git log --no-walk")) + 1, Len(SplitWs(call)))

\* C26: in one run commit details are requested with at most one query, which names every
\* surviving commit id once; no query is issued when no commit survives
C26_OneDetailQuery ==
    /\ Cardinality(DetailCalls) <= 1
    /\ pc \in {"print", "done"} =>
        /\ all_commit_hashes = {} => DetailCalls = {}
        /\ all_commit_hashes # {} => DetailCalls # {}
        /\ \A k \in DetailCalls :
            /\ Range(IdsAsked(calls[k])) = all_commit_hashes
            /\ Len(IdsAsked(calls[k])) = Cardinality(all_commit_hashes)

\* a run that attributed two commits, over two conflicting files, and asked for their
\* details in one query
C26_TwoCommitsOneQuery ==
    /\ pc = "done"
    /\ Cardinality(all_commit_hashes) = 2
    /\ Len(conflicts) = 2
    /\ Cardinality(DetailCalls) = 1

\* the dict values get_commit_details_batch is to return for the records of an answer
DetailsFor(records) ==
    [k \in 1..Len(records) |->
        [message |-> records[k].message, author |-> "t <t@t>", date |-> "2023-11-14 22:13:20 +0000",
         sha |-> records[k].sha]]

\* get_commit_details_batch has returned, having asked for commits and got an answer
DetailsFetched == pc \in {"print", "done"} /\ env.failure = "none" /\ all_commit_hashes # {}

\* C27: for a well-formed answer of k records get_commit_details_batch returns exactly the
\* k ids, each with the subject, author and date of the three lines after its start line;
\* a subject that begins with "COMMIT_START " starts no record
C27_WellFormedAnswerParsed ==
    DetailsFetched => \A records \in LogRecords : report = ResponseOf(records) => conflict_commits = DetailsFor(records)

\* two records are returned, the subject of the first reading like the start of a record
\* of the second commit
C27_SubjectReadsLikeAStart ==
    /\ DetailsFetched
    /\ \E records \in LogRecords : report = ResponseOf(records)
    /\ Len(conflict_commits) = 2
    /\ conflict_commits[1].message = "COMMIT_START " \o conflict_commits[2].sha

\* a command about the file f fails, for another reason than a missing repository (the
\* three-way merge fails for every file it is run on)
FileCommandFails ==
    env.failure \in {"show-source", "show-target", "show-base", "merge-file", "blame-target", "blame-source"}

\* a command on a candidate file was run
FileCommandRun ==
    \E k \in 1..Len(calls) : \E command \in {"git show ", "git merge-file ", "git blame "} : StartsWith(calls[k], command)

\* C28: a failed command, other than for a missing repository, affects only the step that
\* depended on it: when the extraction or the attribution fails for the file f, f gets an
\* empty result, the content and the commits of the other file g are those of a run
\* without the failure, and no exception leaves main once a command on a file was run
C28_FailureStaysWithItsFile ==
    FileCommandFails =>
        /\ pc = "raised" => ~FileCommandRun
        /\ (pc \in {"check", "attribute", "details", "print", "done"} /\ DirectAttempted) =>
            /\ (DictHas(conflicts, "f") /\ env.failure \in {"show-source", "show-target", "show-base", "merge-file"}) =>
                   DictGet(conflicts, "f") = <<>>
            /\ DictHas(conflicts, "g") =>
                   DictGet(conflicts, "g") = IF env.failure = "merge-file" THEN <<>> ELSE TargetSide("g")
        /\ pc \in {"details", "print", "done"} =>
            /\ all_commit_hashes \subseteq {Sha("U")}
            /\ (DictHas(conflicts, "g") /\ repo.U = "g1u" /\ env.failure # "merge-file") => Sha("U") \in all_commit_hashes

\* find_actual_conflict_lines has run
Extracted == pc \in {"check", "legacy"} /\ calls # <<>>

\* C30: every temporary file find_actual_conflict_lines created is removed on every way
\* out of it (a conflict, a clean merge, another exit status of the merge, an exception
\* while a later temporary file is created or the merge is run), and the cleanup raises
\* no error
C30_TemporaryFilesRemoved ==
    Extracted => (temp.files = {} /\ temp.raised # "UnboundLocalError")

====
